---- MODULE Spec2Model ----
(***************************************************************************)
(* Official-first ingestion pipeline: the acquisition ladder of            *)
(* DataGovInConnector.run, the catalog upsert of run_ingestion, the        *)
(* correlation run, and the pagination loop of _fetch_api_pages.           *)
(*                                                                         *)
(* Scores are in thousandths (0.98 is 980).  A data frame is a record      *)
(* [cols, rows]; every row carries a ghost field o naming the strategy     *)
(* whose payload it came from.                                             *)
(***************************************************************************)
EXTENDS Integers, Sequences, FiniteSets, TLC

\* ------------------------------------------------------------------ bounds

\* Candidate file URLs offered to one page-discovery attempt.
MaxCandidates == 2

\* Length of the selected_sources list of one run_ingestion call.
MaxSelected == 2

\* Longest candidate list of the per-candidate model of page discovery.
MaxListed == 3

\* Longest column name passed to _standardize_df.
MaxNameLen == 5

\* ------------------------------------------------------- program constants

MaxPages == 200
MaxOffset == 200000
DefaultLimit == 5000
MinOverlap == 2

\* ---------------------------------------------------------------- sources

\* One of DataGovInConnector.spec.source_ids.
MappedSources == {"s1"}

\* An inventory source_id that no connector declares.
UnmappedSources == {"u1"}

\* One of ProcurementAwardsConnector.spec.source_ids.
StubSources == {"p1"}

\* One of RBIMOSPIMacroConnector.spec.source_ids.
MacroSources == {"m1"}

InventoryIds == MappedSources \cup UnmappedSources

CorrelationId == "correlation_matrix"

\* Output table paths: processed_root/<source_id>.parquet and the correlation file.
Paths == MappedSources \cup StubSources \cup MacroSources \cup {CorrelationId}

NoVal == "none"

\* ------------------------------------------------------------ data frames

Row(o, st, y, v, w) == [o |-> o, state |-> st, year |-> y, v |-> v, w |-> w]

\* pd.DataFrame(): no columns, no rows.
EmptyDf == [cols |-> {}, rows |-> <<>>]

\* Python None where a frame is expected.
NoneDf == [cols |-> {"<None>"}, rows |-> <<>>]

\* No file at a path.
NoFile == [cols |-> {"<missing>"}, rows |-> <<>>]

\* A payload with a dimension column, a year column and two numeric metrics.
FrameA(o) == [cols |-> {"state", "year", "v", "w"},
              rows |-> <<Row(o, "e1", 2020, 1, 5), Row(o, "e1", 2021, 2, 3)>>]

\* A payload without a year column whose two rows are equal (a mirrored file).
FrameB(o) == [cols |-> {"state", "v"},
              rows |-> <<Row(o, "e1", 0, 1, 0), Row(o, "e1", 0, 1, 0)>>]

Payloads(o) == {FrameA(o), FrameB(o)}

\* A payload with a negative value in column v.
FrameN(o) == [cols |-> {"state", "year", "v", "w"},
              rows |-> <<Row(o, "e1", 2020, -1, 5), Row(o, "e1", 2021, 2, 3)>>]

IsEmpty(df) == Len(df.rows) = 0

RECURSIVE DropDuplicates(_)
DropDuplicates(rows) ==
    IF rows = <<>> THEN <<>>
    ELSE LET front == DropDuplicates(SubSeq(rows, 1, Len(rows) - 1))
             last == rows[Len(rows)]
         IN IF \E i \in 1..Len(front) : front[i] = last
            THEN front
            ELSE Append(front, last)

RECURSIVE Concat(_)
Concat(frames) ==
    IF frames = <<>> THEN EmptyDf
    ELSE LET rest == Concat(Tail(frames))
         IN [cols |-> Head(frames).cols \cup rest.cols,
             rows |-> Head(frames).rows \o rest.rows]

ProvenanceCols == {"source_type", "source_id", "metric_category",
                   "dataset_source", "retrieved_at"}

\* The table DataGovInConnector.run writes: concatenate, drop duplicate rows,
\* add the provenance columns.
Normalize(frames) ==
    LET df == Concat(frames)
    IN [cols |-> df.cols \cup ProvenanceCols,
        rows |-> IF IsEmpty(df) THEN df.rows ELSE DropDuplicates(df.rows)]

\* A digest is injective on file contents.
Sha256(file) == <<"sha256", file>>

NoSha == <<"nosha", NoFile>>

\* ---------------------------------------------------------------- scoring

\* Faulty variant: the rows of manual_ingest and automated are exchanged.
StatusFactorExchanged(st) ==
    CASE st = "ok" -> 1000
      [] st = "automated" -> 980
      [] st = "manual_ingest" -> 1000
      [] st = "stub_parsed" -> 780
      [] st = "metadata_only" -> 620
      [] st = "proxy_stub" -> 380
      [] st = "stubs_disabled" -> 300
      [] st = "disabled" -> 220
      [] st = "stubbed_manual_gap" -> 340
      [] st = "candidate_ready" -> 440
      [] OTHER -> 500

\* Faulty variant: a status the table does not list is not capped.
StatusFactorOpen(st) ==
    CASE st \in {"ok", "automated"} -> 1000
      [] st = "manual_ingest" -> 980
      [] st = "stub_parsed" -> 780
      [] st = "metadata_only" -> 620
      [] st = "proxy_stub" -> 380
      [] st = "stubs_disabled" -> 300
      [] st = "disabled" -> 220
      [] st = "stubbed_manual_gap" -> 340
      [] st = "candidate_ready" -> 440
      [] OTHER -> 1000

\* STATUS_CONFIDENCE, with 0.5 for a status it does not list.
StatusFactor(st) ==
    CASE st \in {"ok", "automated"} -> 1000
      [] st = "manual_ingest" -> 980
      [] st = "stub_parsed" -> 780
      [] st = "metadata_only" -> 620
      [] st = "proxy_stub" -> 380
      [] st = "stubs_disabled" -> 300
      [] st = "disabled" -> 220
      [] st = "stubbed_manual_gap" -> 340
      [] st = "candidate_ready" -> 440
      [] OTHER -> 500

Min(a, b) == IF a <= b THEN a ELSE b

Max(a, b) == IF a >= b THEN a ELSE b

\* A missing cell (NaN) of a numeric column.
NaN == -999

NumericCols == {"v", "w"}

\* df.isna().sum().sum(): the key and provenance columns have no missing cell.
Missing(df) ==
    Cardinality({<<i, c>> \in (1..Len(df.rows)) \X (NumericCols \cap df.cols) :
                    df.rows[i][c] = NaN})

\* round(x, 3) of the fraction num/den, in thousandths (ties to even).
Round3(num, den) ==
    LET q == (1000 * num) \div den
        rem == (1000 * num) % den
    IN IF 2 * rem > den \/ (2 * rem = den /\ q % 2 = 1) THEN q + 1 ELSE q

CompletenessScore(df) ==
    IF IsEmpty(df) THEN 0
    ELSE LET total == Len(df.rows) * Max(Cardinality(df.cols), 1)
         IN Max(0, Round3(total - Missing(df), total))

FreqToDays(update_frequency) ==
    CASE update_frequency = "daily" -> 1
      [] update_frequency = "monthly" -> 31
      [] update_frequency = "quarterly" -> 92
      [] update_frequency \in {"annual", "unknown"} -> 365
      [] OTHER -> 365

\* The timestamp handed to recency_score: none, a string fromisoformat
\* rejects, one without an offset, or one with an offset and its age in days.
NoTimestamp == [kind |-> "none", age_days |-> 0]

BadTimestamp == [kind |-> "unparseable", age_days |-> 0]

NaiveTimestamp == [kind |-> "naive", age_days |-> 0]

Timestamp(days) == [kind |-> "aware", age_days |-> days]

\* Subtracting a timestamp without an offset from now(utc) raises TypeError.
RecencyRaises(last_updated) == last_updated.kind = "naive"

RecencyScore(last_updated, update_frequency) ==
    IF last_updated.kind # "aware" THEN 250
    ELSE LET freq_days == FreqToDays(update_frequency)
             age_days == last_updated.age_days
         IN IF age_days <= freq_days THEN 1000
            ELSE IF age_days <= freq_days * 2 THEN 700
            ELSE IF age_days <= freq_days * 4 THEN 400
            ELSE 200

ProvenanceScore(item) ==
    LET rel == item.reliability_grade
    IN IF rel = "A" /\ item.official_flag THEN 1000
       ELSE IF rel = "B" /\ item.official_flag THEN 850
       ELSE IF rel = "C" /\ ~item.official_flag THEN 600
       ELSE IF rel = "C" THEN 700
       ELSE 500

\* 0.05 off for a listed column the table lacks, 0.25 off for one with a
\* negative value.
ConsistencyScore(df, numeric_nonnegative) ==
    IF IsEmpty(df) THEN 300
    ELSE LET absent == {c \in numeric_nonnegative : c \notin df.cols}
             negative == {c \in numeric_nonnegative \cap df.cols :
                            \E i \in 1..Len(df.rows) :
                               df.rows[i][c] # NaN /\ df.rows[i][c] < 0}
             score == 1000 - 50 * Cardinality(absent) - 250 * Cardinality(negative)
         IN Min(Max(score, 0), 1000)

\* The four sub-scores of evaluate() after the status caps.  provenance_score
\* is a product of two thousandths and is kept in millionths.  evaluate()
\* calls consistency_score(df) without a column list.
SubScores(df, item) ==
    LET status_factor == StatusFactor(item.status)
    IN [completeness_score |-> Min(CompletenessScore(df), status_factor),
        recency_score |-> Min(RecencyScore(item.retrieved_at, item.update_frequency),
                              Max(200, status_factor)),
        provenance_score |-> ProvenanceScore(item) * Max(250, status_factor),
        consistency_score |-> Min(ConsistencyScore(df, {}), Max(200, status_factor))]

\* 0.35 c + 0.25 r + 0.2 p + 0.2 cs, in units of 10^-8.
Overall(scores) ==
    35000 * scores.completeness_score + 25000 * scores.recency_score
    + 20 * scores.provenance_score + 20000 * scores.consistency_score

\* confidence_badge.  The sum is a floating-point one: where it is exactly a
\* threshold, the comparison may fall on either side.
Badges(scores) ==
    LET overall == Overall(scores)
    IN (IF overall >= 85000000 THEN {"High"}
        ELSE IF overall >= 65000000 THEN {"Med"} ELSE {"Low"})
       \cup (IF overall = 85000000 THEN {"Med"} ELSE {})
       \cup (IF overall = 65000000 THEN {"Low"} ELSE {})

\* A context that holds none of the keys evaluate() reads.
DefaultItem == [status |-> "", retrieved_at |-> NoTimestamp,
                update_frequency |-> "unknown",
                reliability_grade |-> "C", official_flag |-> FALSE]

NoResult == [completeness_score |-> -1, recency_score |-> -1,
             provenance_score |-> -1, consistency_score |-> -1,
             overall_confidence_badge |-> "none"]

\* The two sub-scores of evaluate() that depend on the table read for scoring.
Evaluate(df, st) ==
    LET scores == SubScores(df, [DefaultItem EXCEPT !.status = st])
    IN [completeness_score |-> scores.completeness_score,
        consistency_score |-> scores.consistency_score]

NoScores == [completeness_score |-> -1, consistency_score |-> -1]

\* --------------------------------------------------------------- manifests

\* A manifest dictionary.  A key the dictionary does not hold is FALSE
\* (has_citations, has_manifest, has_path), NoVal, NoSha, {} or -1.
Entry(sid, st, skip, cat) ==
    [source_id |-> sid, status |-> st, skip_reason |-> skip,
     metric_category |-> cat,
     has_citations |-> FALSE, anchor |-> NoVal,
     has_manifest |-> FALSE, raw_files |-> {}, output_file |-> NoVal,
     output_sha |-> NoSha, row_count |-> -1,
     has_path |-> FALSE, output_table_path |-> NoVal,
     scores |-> NoScores]

\* The manifest of the auth-blocked return.
BlockedManifest(sid) == Entry(sid, "disabled", "auth_restriction", "official_measured")

\* The manifest of the return taken when no strategy yielded a frame.
FailedManifest(sid, skip) ==
    Entry(sid, "failed", IF skip = NoVal THEN "no_source_data_available" ELSE skip,
          "official_measured")

\* The manifest run_ingestion builds for a source without a connector.
NotMappedManifest(sid) == Entry(sid, "not_mapped", NoVal, NoVal)

\* The manifest of a resolved source: citations, file inventory, row count and
\* the connector's own evaluate() call, whose context carries no status.
ResolvedManifest(sid, st, skip, anc, raws, df) ==
    [Entry(sid, st, skip, "official_measured") EXCEPT
        !.has_citations = TRUE, !.anchor = anc,
        !.has_manifest = TRUE,
        !.raw_files = {raws[i] : i \in 1..Len(raws)},
        !.output_file = sid, !.output_sha = Sha256(df),
        !.row_count = Len(df.rows),
        !.scores = Evaluate(df, "")]

\* The one-row table ProcurementAwardsConnector.run writes when there is no
\* manual file: no dimension column and no year column.
StubPlaceholder ==
    [cols |-> {"source_id", "source_type", "dataset_source", "metric_name",
               "metric_value", "unit", "retrieved_at", "metric_category", "notes"},
     rows |-> <<Row("stub", NoVal, 0, 0, 0)>>]

\* _manual_status.
ManualStatus(allow_auto) ==
    IF allow_auto THEN "candidate_ready" ELSE "stubbed_manual_gap"

\* The manifest returned with the placeholder table; evaluate() is not called.
StubGapManifest(sid, allow_auto) ==
    [Entry(sid, ManualStatus(allow_auto), "no_manual_procurement_csv",
           "official_measured") EXCEPT
        !.has_citations = TRUE,
        !.anchor = "manual_procurement_or_annual_release_track",
        !.has_manifest = TRUE, !.raw_files = {},
        !.output_file = sid, !.output_sha = Sha256(StubPlaceholder),
        !.row_count = Len(StubPlaceholder.rows)]

\* The manifest returned when the manual CSV was imported.
StubIngestManifest(sid, df) ==
    [Entry(sid, "manual_ingest", NoVal, "official_measured") EXCEPT
        !.has_citations = TRUE,
        !.anchor = "manual_procurement_or_annual_release_track",
        !.has_manifest = TRUE, !.raw_files = {"manual"},
        !.output_file = sid, !.output_sha = Sha256(df),
        !.row_count = Len(df.rows),
        !.scores = Evaluate(df, "")]

\* Faulty variant: the new entry is appended and nothing is dropped.
UpsertAppend(entries, entry) == entries \o <<entry>>

\* Faulty variant: the new entry is laid over the one it replaces, so a key the
\* new manifest does not carry keeps its old value.
UpsertMerge(entries, entry) ==
    LET olds == {i \in 1..Len(entries) : entries[i].source_id = entry.source_id}
        old == entries[CHOOSE i \in olds : TRUE]
        merged == IF olds = {} THEN entry
                  ELSE [entry EXCEPT
                          !.has_citations = @ \/ old.has_citations,
                          !.anchor = IF @ = NoVal THEN old.anchor ELSE @,
                          !.has_manifest = @ \/ old.has_manifest,
                          !.raw_files = IF entry.has_manifest THEN @ ELSE old.raw_files,
                          !.output_file = IF @ = NoVal THEN old.output_file ELSE @,
                          !.output_sha = IF @ = NoSha THEN old.output_sha ELSE @,
                          !.row_count = IF @ = -1 THEN old.row_count ELSE @]
    IN SelectSeq(entries, LAMBDA e : e.source_id # entry.source_id) \o <<merged>>

\* Faulty variant: the new entry takes the place of the one it replaces.
UpsertInPlace(entries, entry) ==
    IF \E i \in 1..Len(entries) : entries[i].source_id = entry.source_id
    THEN [i \in 1..Len(entries) |->
            IF entries[i].source_id = entry.source_id THEN entry ELSE entries[i]]
    ELSE entries \o <<entry>>

\* Replace-by-key: drop every entry of the same source_id, append the new one.
Upsert(entries, entry) ==
    SelectSeq(entries, LAMBDA e : e.source_id # entry.source_id) \o <<entry>>

CountOf(entries, sid) == Cardinality({i \in 1..Len(entries) : entries[i].source_id = sid})

EntryOf(entries, sid) == entries[CHOOSE i \in 1..Len(entries) : entries[i].source_id = sid]

\* ------------------------------------------------------------------- state

VARIABLES
    catalog,          \* datasets of the persisted catalog.json (<<>>: no file)
    tables,           \* output table at each path, or NoFile
    manifests,        \* per-source manifest document, keyed by source_id
    pc,               \* position of the running call
    targets,          \* run_ingestion: target_sources still to process
    catalog_entries,  \* run_ingestion: the working list
    source_id,        \* the source being resolved
    source_auth,      \* source.get("auth") of the source last handed to run
    manual_df,        \* run: the manual frame read on entry, or NoneDf
    allow_auto_fetch, \* run: the descriptor's flag, once read
    df_frames,        \* run: frames collected so far
    status,           \* run
    anchor,           \* run
    skip_reason,      \* run
    raw_paths,        \* run: strategy of each raw artifact kept
    manifest_entry,   \* run_ingestion: result.manifest of the last run
    requests,         \* ghost: requests issued by the current resolution
    ladder,           \* ghost: strategies attempted by the current resolution
    last_run,         \* ghost: how the last run_ingestion call ended
    last_corr,        \* ghost: the status/reason run_correlation returned
    world,            \* inputs already observed, per source (only when pinned)
    pinned,           \* TRUE: an input, once observed, stays as it was
    f_pc,             \* _fetch_api_pages: position
    limit,            \* _fetch_api_pages: page size requested
    offset,           \* _fetch_api_pages: offset of the next request
    pages,            \* _fetch_api_pages: len(pages)
    visited,          \* _fetch_api_pages: records received
    n_requests,       \* ghost: requests issued by this call
    last_offset,      \* ghost: offset of the last request
    all_full,         \* ghost: every response so far was a full page that
                      \* declared no total or count that stops the loop
    e_pc,             \* evaluate: idle, returned or raised
    e_df,             \* evaluate: the table scored
    e_item,           \* evaluate: the scoring context
    e_out,            \* evaluate: the dictionary returned
    k_pc,             \* _pairwise_corr: idle or returned
    k_wide,           \* _pairwise_corr: the merged frame passed in
    k_min_overlap,    \* _pairwise_corr: min_overlap
    k_records,        \* _pairwise_corr: the list returned
    log,              \* ghost: the requests of one resolution, in order
    c_pc,             \* page discovery: idle, loop, after or done
    c_candidates,     \* page discovery: candidates
    c_i,              \* page discovery: index of the next candidate
    c_seen,           \* page discovery: seen_candidate_paths
    c_accepted,       \* page discovery: index of the candidate kept (0: none)
    c_failures,       \* page discovery: len(parse_failures)
    c_status,         \* page discovery: status
    c_anchor,         \* page discovery: anchor
    c_skip,           \* page discovery: skip_reason
    endpoint,         \* ghost: what the macro endpoint answers during the call
    t_pc,             \* provenance stamping in run: idle or returned
    t_df,             \* the standardised frame about to be stamped
    t_out,            \* the table written
    t_at,             \* retrieved_at of the manifest
    z_pc,             \* _standardize_df: idle or returned
    z_df,             \* _standardize_df: the frame passed in
    z_out             \* _standardize_df: the frame returned

vars == <<catalog, tables, manifests, pc, targets, catalog_entries, source_id,
          source_auth, manual_df, allow_auto_fetch, df_frames, status, anchor, skip_reason,
          raw_paths, manifest_entry, requests, ladder, last_run, last_corr,
          world, pinned, f_pc, limit, offset, pages, visited, n_requests,
          last_offset, all_full, e_pc, e_df, e_item, e_out,
          k_pc, k_wide, k_min_overlap, k_records, log, c_pc, c_candidates, c_i,
          c_seen, c_accepted, c_failures, c_status, c_anchor, c_skip, endpoint,
          t_pc, t_df, t_out, t_at, z_pc, z_df, z_out>>

scoreVars == <<e_pc, e_df, e_item, e_out>>

corrVars == <<k_pc, k_wide, k_min_overlap, k_records>>

pageVars == <<c_pc, c_candidates, c_i, c_seen, c_accepted, c_failures, c_status,
              c_anchor, c_skip>>

stampVars == <<t_pc, t_df, t_out, t_at>>

nameVars == <<z_pc, z_df, z_out>>

pureVars == <<e_pc, e_df, e_item, e_out, k_pc, k_wide, k_min_overlap, k_records,
              c_pc, c_candidates, c_i, c_seen, c_accepted, c_failures, c_status,
              c_anchor, c_skip, t_pc, t_df, t_out, t_at, z_pc, z_df, z_out>>

fetchVars == <<f_pc, limit, offset, pages, visited, n_requests, last_offset, all_full,
               log>>

mainVars == <<catalog, tables, manifests, pc, targets, catalog_entries, source_id,
              source_auth, manual_df, allow_auto_fetch, df_frames, status, anchor, skip_reason,
              raw_paths, manifest_entry, requests, ladder, last_run, last_corr,
              world, pinned, endpoint>>

persistent == <<catalog, tables, manifests>>

runLocals == <<manual_df, allow_auto_fetch, df_frames, status, anchor,
               skip_reason, raw_paths>>

\* ------------------------------------------------------------------ inputs

\* The values input f of source s may take now.
Offer(s, f, D) == IF pinned /\ f \in DOMAIN world[s] THEN {world[s][f]} ELSE D

\* Record the inputs a step has observed.
Observe(s, obs) ==
    world' = IF pinned THEN [world EXCEPT ![s] = obs @@ @] ELSE world

\* citations.anchor: the strategy and, for a file, the candidate it names.
Anchor(kind, key) == [kind |-> kind, key |-> key]

NoAnchor == Anchor(NoVal, 0)

\* The merged frame of no long frame at all.
NoWide == [index |-> {}, columns |-> <<>>, records |-> {}]

\* Nothing on disk yet.
InitStore ==
    /\ catalog = <<>>
    /\ tables = [p \in Paths |-> NoFile]
    /\ manifests = [p \in Paths |-> Entry(NoVal, NoVal, NoVal, NoVal)]

\* No call in progress.
InitLocals ==
    /\ pc = "idle"
    /\ targets = <<>>
    /\ catalog_entries = <<>>
    /\ source_id = NoVal
    /\ source_auth = NoVal
    /\ manual_df = NoneDf
    /\ allow_auto_fetch = FALSE
    /\ df_frames = <<>>
    /\ status = NoVal
    /\ anchor = NoVal
    /\ skip_reason = NoVal
    /\ raw_paths = <<>>
    /\ manifest_entry = Entry(NoVal, NoVal, NoVal, NoVal)
    /\ requests = {}
    /\ ladder = <<>>
    /\ last_run = NoVal
    /\ last_corr = NoVal
    /\ world = [s \in MappedSources |-> <<>>]
    /\ f_pc = "idle"
    /\ limit = DefaultLimit
    /\ offset = 0
    /\ pages = 0
    /\ visited = 0
    /\ n_requests = 0
    /\ last_offset = 0
    /\ all_full = TRUE
    /\ e_pc = "idle"
    /\ e_df = EmptyDf
    /\ e_item = DefaultItem
    /\ e_out = NoResult
    /\ k_pc = "idle"
    /\ k_wide = NoWide
    /\ k_min_overlap = MinOverlap
    /\ k_records = <<>>
    /\ log = <<>>
    /\ c_pc = "idle"
    /\ c_candidates = <<>>
    /\ c_i = 0
    /\ c_seen = {}
    /\ c_accepted = 0
    /\ c_failures = 0
    /\ c_status = NoVal
    /\ c_anchor = NoAnchor
    /\ c_skip = NoVal
    /\ endpoint = [kind |-> "raise", df |-> NoneDf]
    /\ t_pc = "idle"
    /\ t_df = [cols |-> {}, rows |-> <<>>]
    /\ t_out = [cols |-> {}, rows |-> <<>>]
    /\ t_at = NoVal
    /\ z_pc = "idle"
    /\ z_df = [columns |-> <<>>, rows |-> 0]
    /\ z_out = [columns |-> <<>>, rows |-> 0]

InitCommon == InitStore /\ InitLocals

Init == InitCommon /\ pinned = FALSE

\* --------------------------------------------------------- the environment

\* raw_root/manual/<source_id>.{csv,json,xlsx}: no file, a file the reader
\* rejects, a header-only file, or a file with rows (N: one value negative).
ManualStates == {"absent", "unreadable", "empty", "A", "B", "N"}

HeaderOnly == [cols |-> {"state", "year", "v", "w"}, rows |-> <<>>]

ManualFrame(m) ==
    CASE m = "A" -> FrameA("manual")
      [] m = "B" -> FrameB("manual")
      [] m = "N" -> FrameN("manual")
      [] m = "empty" -> HeaderOnly
      [] OTHER -> NoneDf

AuthValues == {"open", "restricted", "captcha"}

\* What a fetch returns: an exception, None, or a frame (possibly empty).
Raised == [kind |-> "raise", df |-> NoneDf]

ReturnedNone == [kind |-> "none", df |-> NoneDf]

Returned(df) == [kind |-> "frame", df |-> df]

\* Results of _fetch_api_pages.
ApiResults == {Raised} \cup {Returned(f) : f \in {EmptyDf} \cup Payloads("api")}

\* Results of _read_file_candidate.
CandidateResults ==
    {Raised, ReturnedNone} \cup {Returned(f) : f \in {EmptyDf} \cup Payloads("page")}

\* The candidate URLs of one attempt, by what reading each one gives.
CandidateLists ==
    UNION {[1..n -> CandidateResults] : n \in 0..MaxCandidates}

Usable(c) == c.kind = "frame" /\ ~IsEmpty(c.df)

\* Candidates are read in list order up to the first usable one.
TriedCandidates(cands) ==
    IF \E i \in 1..Len(cands) : Usable(cands[i])
    THEN 1..(CHOOSE i \in 1..Len(cands) :
                /\ Usable(cands[i])
                /\ \A j \in 1..(i - 1) : ~Usable(cands[j]))
    ELSE 1..Len(cands)

\* Everything a descriptor and the world outside can be.
FullEnv ==
    [manual |-> ManualStates,
     auth |-> AuthValues,
     allow_auto_fetch |-> BOOLEAN,
     access_type |-> {"API", "file"},
     url |-> BOOLEAN,
     resource_id |-> {"missing", "placeholder", "set"},
     api_key_env |-> BOOLEAN,
     api_result |-> ApiResults,
     page_decl |-> {"none", "page", "files", "both"},
     page_fetch |-> {"raise", "http_error", "ok"},
     candidates |-> CandidateLists,
     manual_fallback |-> BOOLEAN]

\* Sources curated by hand: automated fetch is off, so only the auth gate and
\* the manual file decide the outcome.
ManualEnv ==
    [FullEnv EXCEPT !.allow_auto_fetch = {FALSE},
                    !.access_type = {"file"},
                    !.url = {TRUE},
                    !.resource_id = {"missing"},
                    !.api_key_env = {FALSE},
                    !.api_result = {Raised},
                    !.page_decl = {"none"},
                    !.page_fetch = {"ok"},
                    !.candidates = {<<>>},
                    !.manual_fallback = {TRUE},
                    !.auth = {"open", "restricted"},
                    !.manual = {"absent", "unreadable", "A", "B"}]

Request(kind, rid, idx) == [kind |-> kind, rid |-> rid, idx |-> idx]

Attempt(strategy, yielded) == [strategy |-> strategy, yielded |-> yielded]

\* ------------------------------------------------------------ run_ingestion

\* source_map, in inventory order.
InventoryOrder == <<"s1", "u1">>

\* selected_sources: None/empty, or a list of ids (repeats allowed).
Selections ==
    UNION {[1..n -> InventoryIds] : n \in 0..MaxSelected}

ResetLocals ==
    /\ manual_df' = NoneDf
    /\ allow_auto_fetch' = FALSE
    /\ df_frames' = <<>>
    /\ status' = NoVal
    /\ anchor' = NoVal
    /\ skip_reason' = NoVal
    /\ raw_paths' = <<>>
    /\ manifest_entry' = Entry(NoVal, NoVal, NoVal, NoVal)
    /\ requests' = {}
    /\ ladder' = <<>>

\* An exception leaves connector.run and run_ingestion: write_catalog is not reached.
Abort ==
    /\ pc' = "idle"
    /\ targets' = <<>>
    /\ catalog_entries' = <<>>
    /\ source_id' = NoVal
    /\ ResetLocals
    /\ last_run' = "aborted"
    /\ UNCHANGED <<persistent, last_corr, pinned, fetchVars, pureVars,
                   endpoint>>

\* run_ingestion up to the loop: targets and the existing catalog entries.
IngestBegin(inv, sel) ==
    /\ pc = "idle"
    /\ targets' = IF sel = <<>> THEN inv
                  ELSE SelectSeq(sel, LAMBDA sid :
                                        \E i \in 1..Len(inv) : inv[i] = sid)
    /\ catalog_entries' = catalog
    /\ pc' = "loop"
    /\ last_run' = "running"
    /\ source_auth' = NoVal
    /\ UNCHANGED <<persistent, source_id, runLocals, manifest_entry, requests,
                   ladder, last_corr, world, pinned, fetchVars, pureVars,
                   endpoint>>

\* The loop body for a source_id no connector declares.
NotMapped ==
    /\ pc = "loop"
    /\ targets # <<>>
    /\ Head(targets) \in UnmappedSources
    /\ catalog_entries' = Upsert(catalog_entries, NotMappedManifest(Head(targets)))
    /\ targets' = Tail(targets)
    /\ UNCHANGED <<persistent, pc, source_id, source_auth, runLocals, manifest_entry,
                   requests, ladder, last_run, last_corr, world, pinned, fetchVars, pureVars,
                   endpoint>>

\* write_catalog after the loop.
WriteCatalog ==
    /\ pc = "loop"
    /\ targets = <<>>
    /\ catalog' = catalog_entries
    /\ pc' = "idle"
    /\ catalog_entries' = <<>>
    /\ source_id' = NoVal
    /\ source_auth' = NoVal
    /\ last_run' = "completed"
    /\ UNCHANGED <<tables, manifests, targets, runLocals, manifest_entry, requests,
                   ladder, last_corr, world, pinned, fetchVars, pureVars,
                   endpoint>>

\* ------------------------------------------------- DataGovInConnector.run

\* Entry of run: the manual file is read, then the auth gate.
RunStart(env) ==
    /\ pc = "loop"
    /\ targets # <<>>
    /\ Head(targets) \in MappedSources
    /\ LET s == Head(targets)
       IN \E m \in Offer(s, "manual", env.manual),
             a \in Offer(s, "auth", env.auth) :
            /\ Observe(s, ("manual" :> m) @@ ("auth" :> a))
            /\ source_auth' = a
            /\ IF m = "unreadable"
               THEN Abort
               ELSE /\ source_id' = s
                    /\ targets' = Tail(targets)
                    /\ manual_df' = ManualFrame(m)
                    /\ raw_paths' = <<>>
                    /\ df_frames' = <<>>
                    /\ requests' = {}
                    /\ ladder' = <<>>
                    /\ allow_auto_fetch' = FALSE
                    /\ IF a \in {"restricted", "captcha"}
                       THEN /\ manifest_entry' = BlockedManifest(s)
                            /\ status' = NoVal
                            /\ anchor' = NoVal
                            /\ skip_reason' = NoVal
                            /\ pc' = "score"
                       ELSE /\ manifest_entry' = Entry(NoVal, NoVal, NoVal, NoVal)
                            /\ status' = "candidate_ready"
                            /\ anchor' = "manual_upload"
                            /\ skip_reason' = NoVal
                            /\ pc' = "api"
                    /\ UNCHANGED <<persistent, catalog_entries, last_run,
                                   last_corr, pinned, fetchVars, pureVars,
                                   endpoint>>

\* Faulty variant: the API URL does not depend on allow_auto_fetch.
ApiUrlUngated(auto, at, url) == at = "API" /\ url

\* api_url is non-empty: auto-fetch allowed, access_type "API", a url declared.
ApiUrl(auto, at, url) == auto /\ at = "API" /\ url

\* 1) The API strategy.
RunApi(env) ==
    /\ pc = "api"
    /\ LET s == source_id
       IN \E auto \in Offer(s, "allow_auto_fetch", env.allow_auto_fetch),
             at \in Offer(s, "access_type", env.access_type),
             url \in Offer(s, "url", env.url),
             rid \in Offer(s, "resource_id", env.resource_id),
             key \in Offer(s, "api_key_env", env.api_key_env),
             res \in Offer(s, "api_result", env.api_result) :
            LET api_url == ApiUrl(auto, at, url)
                descriptor == ("allow_auto_fetch" :> auto) @@ ("access_type" :> at)
                              @@ ("url" :> url) @@ ("resource_id" :> rid)
                              @@ ("api_key_env" :> key)
            IN IF ~api_url
               THEN /\ Observe(s, descriptor)
                    /\ allow_auto_fetch' = auto
                    /\ pc' = "page"
                    /\ UNCHANGED <<persistent, targets, catalog_entries, source_id,
                                   source_auth,
                                   manual_df, df_frames, status, anchor, skip_reason,
                                   raw_paths, manifest_entry, requests, ladder,
                                   last_run, last_corr, pinned, fetchVars, pureVars, endpoint>>
               ELSE IF ~key
               THEN \* os.getenv(None, "") raises outside the try block
                    /\ Observe(s, descriptor)
                    /\ Abort
                    /\ UNCHANGED source_auth
               ELSE /\ Observe(s, descriptor @@ ("api_result" :> res))
                    /\ allow_auto_fetch' = auto
                    /\ requests' = requests \cup {Request("api", rid, 0)}
                    /\ ladder' = Append(ladder, Attempt("api", Usable(res)))
                    /\ IF res.kind = "raise"
                       THEN /\ skip_reason' = "api_fetch_failed"
                            /\ UNCHANGED <<df_frames, raw_paths, status, anchor>>
                       ELSE /\ df_frames' = IF Usable(res) THEN Append(df_frames, res.df)
                                            ELSE df_frames
                            /\ raw_paths' = IF Usable(res) THEN Append(raw_paths, "api")
                                            ELSE raw_paths
                            /\ status' = "automated"
                            /\ anchor' = "api"
                            /\ UNCHANGED skip_reason
                    /\ pc' = "page"
                    /\ UNCHANGED <<persistent, targets, catalog_entries, source_id,
                                   source_auth,
                                   manual_df, manifest_entry, last_run, last_corr,
                                   pinned, fetchVars, pureVars, endpoint>>

\* Faulty variant: page discovery does not look at the frames already held.
PageAttemptedAlways(frames, auto, decl) == auto /\ decl # "none"

\* The guard of the page-discovery strategy.
PageAttempted(frames, auto, decl) == Len(frames) = 0 /\ auto /\ decl # "none"

\* 2) Page discovery: the resource page, then each candidate file in order.
RunPage(env) ==
    /\ pc = "page"
    /\ LET s == source_id
       IN \E decl \in Offer(s, "page_decl", env.page_decl),
             pf \in Offer(s, "page_fetch", env.page_fetch),
             listed \in Offer(s, "candidates", env.candidates) :
            LET attempted == PageAttempted(df_frames, allow_auto_fetch, decl)
                has_page == decl \in {"page", "both"}
                \* explicit resource_file_urls first, page-derived ones otherwise
                candidates == IF decl \in {"files", "both"} \/ pf = "ok"
                              THEN listed ELSE <<>>
                tried == TriedCandidates(candidates)
                found == \E i \in tried : Usable(candidates[i])
                hit == CHOOSE i \in tried : Usable(candidates[i])
            IN IF ~attempted
               THEN /\ Observe(s, "page_decl" :> decl)
                    /\ pc' = "manual"
                    /\ UNCHANGED <<persistent, targets, catalog_entries, source_id,
                                   source_auth,
                                   runLocals, manifest_entry, requests, ladder,
                                   last_run, last_corr, pinned, fetchVars, pureVars,
                                   endpoint>>
               ELSE IF has_page /\ pf = "raise"
               THEN /\ Observe(s, ("page_decl" :> decl) @@ ("page_fetch" :> pf))
                    /\ requests' = requests \cup {Request("page", NoVal, 0)}
                    /\ ladder' = Append(ladder, Attempt("page", FALSE))
                    /\ skip_reason' = "official_page_fetch_failed"
                    /\ df_frames' = <<>>
                    /\ pc' = "manual"
                    /\ UNCHANGED <<persistent, targets, catalog_entries, source_id,
                                   source_auth,
                                   manual_df, allow_auto_fetch, status, anchor,
                                   raw_paths, manifest_entry, last_run, last_corr,
                                   pinned, fetchVars, pureVars, endpoint>>
               ELSE /\ Observe(s, ("page_decl" :> decl) @@ ("page_fetch" :> pf)
                                  @@ ("candidates" :> listed))
                    /\ requests' = requests
                           \cup (IF has_page THEN {Request("page", NoVal, 0)} ELSE {})
                           \cup {Request("file", NoVal, i) : i \in tried}
                    /\ ladder' = Append(ladder, Attempt("page", found))
                    /\ IF found
                       THEN /\ df_frames' = Append(df_frames, candidates[hit].df)
                            /\ raw_paths' = Append(raw_paths, "page")
                            /\ status' = "ok"
                            /\ anchor' = "resource_file"
                            /\ skip_reason' = NoVal
                       ELSE \* RuntimeError, caught by the strategy's own handler
                            /\ skip_reason' = "official_page_fetch_failed"
                            /\ df_frames' = <<>>
                            /\ UNCHANGED <<raw_paths, status, anchor>>
                    /\ pc' = "manual"
                    /\ UNCHANGED <<persistent, targets, catalog_entries, source_id,
                                   source_auth,
                                   manual_df, allow_auto_fetch, manifest_entry,
                                   last_run, last_corr, pinned, fetchVars, pureVars,
                                   endpoint>>

\* Faulty variant: a manual file is used whenever there is one.
UseManualAlways(frames, mdf, mf) == mdf # NoneDf /\ mf

\* The guard of the manual fallback.
UseManual(frames, mdf, mf) == Len(frames) = 0 /\ mdf # NoneDf /\ mf

\* 3) Manual fallback, then the failed return or normalisation, the table write
\* and the manifest.
RunManual(env) ==
    /\ pc = "manual"
    /\ LET s == source_id
       IN \E mf \in Offer(s, "manual_fallback", env.manual_fallback) :
            LET use_manual == UseManual(df_frames, manual_df, mf)
                frames == IF use_manual THEN <<manual_df>> ELSE df_frames
                raws == IF use_manual THEN <<"manual">> ELSE raw_paths
                st == IF use_manual THEN "manual_ingest" ELSE status
                anc == IF use_manual THEN "manual_upload" ELSE anchor
                df == Normalize(frames)
                manifest == ResolvedManifest(s, st, skip_reason, anc, raws, df)
            IN /\ Observe(s, "manual_fallback" :> mf)
               /\ df_frames' = frames
               /\ raw_paths' = raws
               /\ status' = st
               /\ anchor' = anc
               /\ ladder' = IF use_manual
                            THEN Append(ladder, Attempt("manual", ~IsEmpty(manual_df)))
                            ELSE ladder
               /\ IF frames = <<>>
                  THEN /\ manifest_entry' = FailedManifest(s, skip_reason)
                       /\ UNCHANGED <<tables, manifests>>
                  ELSE /\ tables' = [tables EXCEPT ![s] = df]
                       /\ manifests' = [manifests EXCEPT ![s] = manifest]
                       /\ manifest_entry' = manifest
               /\ pc' = "score"
               /\ UNCHANGED <<catalog, targets, catalog_entries, source_id,
                              source_auth, manual_df,
                              allow_auto_fetch, skip_reason, requests, last_run,
                              last_corr, pinned, fetchVars, pureVars, endpoint>>

\* ------------------------------------------- ProcurementAwardsConnector.run

StubEnv == [manual |-> {"absent", "unreadable", "A"}, allow_auto_fetch |-> BOOLEAN]

\* The whole of run: the placeholder table and manifest when the manual CSV is
\* absent, the imported table and its manifest otherwise.  pd.read_csv is not
\* guarded.
StubRun(env) ==
    /\ pc = "loop"
    /\ targets # <<>>
    /\ Head(targets) \in StubSources
    /\ LET s == Head(targets)
       IN \E m \in env.manual, auto \in env.allow_auto_fetch :
            IF m = "unreadable"
            THEN Abort /\ UNCHANGED <<source_auth, world>>
            ELSE LET df == [cols |-> ManualFrame(m).cols \cup ProvenanceCols,
                            rows |-> ManualFrame(m).rows]
                 IN /\ source_id' = s
                    /\ targets' = Tail(targets)
                    /\ IF m = "absent"
                       THEN /\ tables' = [tables EXCEPT ![s] = StubPlaceholder]
                            /\ manifest_entry' = StubGapManifest(s, auto)
                            /\ UNCHANGED manifests
                       ELSE /\ tables' = [tables EXCEPT ![s] = df]
                            /\ manifest_entry' = StubIngestManifest(s, df)
                            /\ manifests' = [manifests EXCEPT
                                               ![s] = StubIngestManifest(s, df)]
                    /\ pc' = "score"
                    /\ UNCHANGED <<catalog, catalog_entries, source_auth, runLocals,
                                   requests, ladder, last_run, last_corr, world,
                                   pinned, fetchVars, pureVars, endpoint>>

\* ------------------------------------------------ RBIMOSPIMacroConnector.run

\* The one-row table written when auto-fetch is off and no manual CSV exists.
MacroPlaceholder ==
    [cols |-> {"source_id", "source_type", "metric_category", "dataset_source",
               "metric_name", "metric_value", "unit", "retrieved_at", "status",
               "note"},
     rows |-> <<Row("stub", NoVal, 0, 0, 0)>>]

\* The manifest returned when the manual CSV was imported.
MacroManualManifest(sid, df) ==
    [Entry(sid, "manual_ingest", NoVal, "official_measured") EXCEPT
        !.has_citations = TRUE,
        !.anchor = "official_manual_macro_snapshot",
        !.has_manifest = TRUE, !.raw_files = {"manual"},
        !.output_file = sid, !.output_sha = Sha256(df),
        !.row_count = Len(df.rows),
        !.scores = Evaluate(df, "")]

\* The manifest returned with the placeholder table; evaluate() is not called.
MacroDisabledManifest(sid) ==
    [Entry(sid, "disabled", "allow_auto_fetch_false", "official_measured") EXCEPT
        !.has_citations = TRUE,
        !.anchor = "source_gate_disabled",
        !.has_manifest = TRUE, !.raw_files = {},
        !.output_file = sid, !.output_sha = Sha256(MacroPlaceholder),
        !.row_count = Len(MacroPlaceholder.rows)]

\* The manifest returned when the endpoint request or its parsing raised.
MacroSkippedManifest(sid) ==
    Entry(sid, "skipped", "endpoint_not_open_or_not_supported_in_v1",
          "official_measured")

\* The manifest returned with the table read from the endpoint.
MacroAutomatedManifest(sid, df) ==
    [Entry(sid, "automated", NoVal, "official_measured") EXCEPT
        !.has_citations = TRUE,
        !.anchor = "official_endpoint",
        !.has_manifest = TRUE, !.raw_files = {"api"},
        !.output_file = sid, !.output_sha = Sha256(df),
        !.row_count = Len(df.rows),
        !.scores = Evaluate(df, "")]

\* The manual directory, the descriptor's flag and the endpoint's answer: an
\* error, a header-only CSV or a CSV with rows.
MacroEnv ==
    [manual |-> {"absent", "unreadable", "A"},
     allow_auto_fetch |-> BOOLEAN,
     endpoint |-> {Raised, Returned(HeaderOnly), Returned(FrameA("api"))}]

\* The whole of run: the manual CSV is read first and imported when it is there;
\* without it the flag decides between the placeholder and one request to the
\* endpoint.  pd.read_csv of the manual file is not guarded.
MacroRun(env) ==
    /\ pc = "loop"
    /\ targets # <<>>
    /\ Head(targets) \in MacroSources
    /\ LET s == Head(targets)
       IN \E m \in env.manual, auto \in env.allow_auto_fetch, ep \in env.endpoint :
            IF m = "unreadable"
            THEN Abort /\ UNCHANGED <<source_auth, world>>
            ELSE /\ source_id' = s
                 /\ targets' = Tail(targets)
                 /\ manual_df' = IF m = "absent" THEN NoneDf ELSE ManualFrame(m)
                 /\ allow_auto_fetch' = auto
                 /\ endpoint' = ep
                 /\ IF m # "absent"
                    THEN LET df == [cols |-> ManualFrame(m).cols \cup ProvenanceCols,
                                    rows |-> ManualFrame(m).rows]
                         IN /\ tables' = [tables EXCEPT ![s] = df]
                            /\ manifest_entry' = MacroManualManifest(s, df)
                            /\ manifests' = [manifests EXCEPT
                                               ![s] = MacroManualManifest(s, df)]
                            /\ requests' = {}
                            /\ ladder' = <<Attempt("manual", ~IsEmpty(df))>>
                    ELSE IF ~auto
                    THEN /\ tables' = [tables EXCEPT ![s] = MacroPlaceholder]
                         /\ manifest_entry' = MacroDisabledManifest(s)
                         /\ requests' = {}
                         /\ ladder' = <<>>
                         /\ UNCHANGED manifests
                    ELSE IF ep.kind # "frame"
                    THEN /\ manifest_entry' = MacroSkippedManifest(s)
                         /\ requests' = {Request("endpoint", NoVal, 0)}
                         /\ ladder' = <<Attempt("api", FALSE)>>
                         /\ UNCHANGED <<tables, manifests>>
                    ELSE LET df == [cols |-> ep.df.cols \cup {"source_type", "source_id",
                                                             "retrieved_at"},
                                    rows |-> ep.df.rows]
                         IN /\ tables' = [tables EXCEPT ![s] = df]
                            /\ manifest_entry' = MacroAutomatedManifest(s, df)
                            /\ manifests' = [manifests EXCEPT
                                               ![s] = MacroAutomatedManifest(s, df)]
                            /\ requests' = {Request("endpoint", NoVal, 0)}
                            /\ ladder' = <<Attempt("api", ~IsEmpty(df))>>
                 /\ pc' = "score"
                 /\ UNCHANGED <<catalog, catalog_entries, source_auth, df_frames,
                                status, anchor, skip_reason, raw_paths, last_run,
                                last_corr, world, pinned, fetchVars, pureVars>>

\* parquet read of a path: the table there, or none.
Exists(path) == tables[path] # NoFile

\* run_ingestion after connector.run: output path, scoring, the per-source
\* manifest document and the upsert into the working list.
ScoredFrom(entry, path, score_df) ==
    [entry EXCEPT !.has_path = TRUE, !.output_table_path = path,
                  !.scores = Evaluate(score_df, entry.status)]

ScoredEntry(entry, path) ==
    ScoredFrom(entry, path, IF Exists(path) THEN tables[path] ELSE EmptyDf)

Score ==
    /\ pc = "score"
    /\ LET entry == ScoredEntry(manifest_entry, source_id)
       IN /\ manifests' = [manifests EXCEPT ![source_id] = entry]
          /\ catalog_entries' = Upsert(catalog_entries, entry)
    /\ pc' = "loop"
    /\ ResetLocals
    /\ UNCHANGED <<catalog, tables, targets, source_id, source_auth, last_run,
                   last_corr, world, pinned, fetchVars, pureVars, endpoint>>

\* ------------------------------------------------------------- correlation

DimensionPriority == <<"state", "district", "corridor", "project_id", "region",
                       "state_name", "project_name">>

HasDimension(df) == \E i \in 1..Len(DimensionPriority) : DimensionPriority[i] \in df.cols

DimensionCol(df) ==
    DimensionPriority[CHOOSE i \in 1..Len(DimensionPriority) :
        /\ DimensionPriority[i] \in df.cols
        /\ \A j \in 1..(i - 1) : DimensionPriority[j] \notin df.cols]

Bookkeeping == {"source_type", "source_id", "metric_category", "dataset_source",
                "unit", "metric_name", "retrieved_at", "publisher",
                "retrieval_url", "notes", "note", "status"}

\* Faulty variant: the year column is not set aside.
MetricColumnsWithYear(df, key_col) == df.cols \ ({key_col} \cup Bookkeeping)

\* Every column left is numeric in the payloads of the model.
MetricColumns(df, key_col) == df.cols \ ({key_col, "year"} \cup Bookkeeping)

\* Year 0 stands for a year that does not parse.
BuildMetricLong(sid, df) ==
    IF IsEmpty(df) \/ ~HasDimension(df) \/ "year" \notin df.cols
    THEN {}
    ELSE LET dim == DimensionCol(df)
             cells == {c \in (1..Len(df.rows)) \X MetricColumns(df, dim) :
                          /\ df.rows[c[1]].year # 0
                          /\ df.rows[c[1]][c[2]] # NaN}
         IN {[dimension_value |-> df.rows[c[1]][dim],
              year |-> df.rows[c[1]].year,
              value |-> df.rows[c[1]][c[2]],
              metric_key |-> <<sid, c[2]>>] : c \in cells}

RECURSIVE SetToSeq(_)
SetToSeq(S) ==
    IF S = {} THEN <<>>
    ELSE LET x == CHOOSE y \in S : TRUE
         IN <<x>> \o SetToSeq(S \ {x})

\* The metric columns of the merged frame, in the order the frames were merged.
RECURSIVE WideColumns(_)
WideColumns(long_frames) ==
    IF long_frames = <<>> THEN <<>>
    ELSE SetToSeq({l.metric_key : l \in Head(long_frames)})
         \o WideColumns(Tail(long_frames))

\* The merged frame: its (entity, year) index, its metric columns and the long
\* records behind its cells.
WidenMetrics(long_frames) ==
    LET records == UNION {long_frames[i] : i \in 1..Len(long_frames)}
    IN [index |-> {<<l.dimension_value, l.year>> : l \in records},
        columns |-> WideColumns(long_frames),
        records |-> records]

CellValues(wide, k, m) ==
    {l.value : l \in {r \in wide.records :
                        <<r.dimension_value, r.year>> = k /\ r.metric_key = m}}

RECURSIVE Sum(_)
Sum(S) == IF S = {} THEN 0 ELSE LET x == CHOOSE y \in S : TRUE IN x + Sum(S \ {x})

\* aggfunc="mean" (whole part; the payloads of the model have one value per cell).
Cell(wide, k, m) == Sum(CellValues(wide, k, m)) \div Cardinality(CellValues(wide, k, m))

SetMin(S) == CHOOSE x \in S : \A y \in S : x <= y

SetMax(S) == CHOOSE x \in S : \A y \in S : x >= y

\* Faulty variant: the overlap is not compared with min_overlap.
PairSurvivesAnyOverlap(n, nunique_a, nunique_b, min_overlap) ==
    nunique_a > 1 /\ nunique_b > 1

\* Faulty variant: a constant column is not skipped.
PairSurvivesConstant(n, nunique_a, nunique_b, min_overlap) ==
    n >= min_overlap /\ n >= 1

\* The two tests a pair passes before its coefficient is computed: n rows left
\* by dropna, and more than one distinct value in each column.
PairSurvives(n, nunique_a, nunique_b, min_overlap) ==
    /\ ~(n < min_overlap)
    /\ ~(nunique_a <= 1 \/ nunique_b <= 1)

\* One record per surviving pair; the coefficient itself is not modelled (it is
\* defined whenever both columns vary).
PairwiseCorr(wide, min_overlap) ==
    LET n == Len(wide.columns)
        pairs == {<<i, j>> \in (1..n) \X (1..n) : i < j}
        Overlap(p) == {k \in wide.index :
                          /\ CellValues(wide, k, wide.columns[p[1]]) # {}
                          /\ CellValues(wide, k, wide.columns[p[2]]) # {}}
        NUnique(p, c) == Cardinality({Cell(wide, k, wide.columns[c]) : k \in Overlap(p)})
        Survives(p) == PairSurvives(Cardinality(Overlap(p)), NUnique(p, p[1]),
                                    NUnique(p, p[2]), min_overlap)
        Rec(p) == [metric_a |-> wide.columns[p[1]], metric_b |-> wide.columns[p[2]],
                   source_a |-> wide.columns[p[1]][1],
                   source_b |-> wide.columns[p[2]][1],
                   overlap_records |-> Cardinality(Overlap(p)),
                   year_min |-> SetMin({k[2] : k \in Overlap(p)}),
                   year_max |-> SetMax({k[2] : k \in Overlap(p)})]
    IN IF n < 2 THEN <<>>
       ELSE SetToSeq({Rec(p) : p \in {q \in pairs : Survives(q)}})

CorrelationColumns == {"metric_a", "metric_b", "source_a", "source_b", "correlation",
                       "overlap_records", "year_min", "year_max", "created_at",
                       "method"}

CorrFrame(rows) == IF rows = <<>> THEN EmptyDf
                   ELSE [cols |-> CorrelationColumns, rows |-> rows]

\* str(skip_reason).startswith("manual"), over the skip reasons manifests carry.
StartsWithManual(skip) == skip \in {"manual_file_missing", "manual_csv_parse_failed"}

\* The catalog entries run_correlation reads a table for.
ReadsTable(entry) ==
    /\ entry.source_id # NoVal
    /\ ~(entry.status \in {"disabled", "stubs_disabled"}
         /\ StartsWithManual(entry.skip_reason))
    /\ entry.metric_category # "model_output"
    /\ entry.has_path
    /\ Exists(entry.output_table_path)
    /\ ~IsEmpty(tables[entry.output_table_path])

\* long_frames, in catalog order.
RECURSIVE LongFrames(_)
LongFrames(entries) ==
    IF entries = <<>> THEN <<>>
    ELSE LET e == Head(entries)
             long == IF ReadsTable(e)
                     THEN BuildMetricLong(e.source_id, tables[e.output_table_path])
                     ELSE {}
         IN (IF long = {} THEN <<>> ELSE <<long>>) \o LongFrames(Tail(entries))

CorrelationManifest(df) ==
    [Entry(CorrelationId, "generated", NoVal, "model_output") EXCEPT
        !.has_citations = TRUE, !.anchor = "derived_pairwise_pearson_state_year",
        !.has_manifest = TRUE, !.output_file = CorrelationId,
        !.output_sha = Sha256(df), !.row_count = Len(df.rows),
        !.has_path = TRUE, !.output_table_path = CorrelationId,
        !.scores = Evaluate(df, "")]

RunCorrelation ==
    /\ pc = "idle"
    /\ LET long_frames == LongFrames(catalog)
           corr == CorrFrame(PairwiseCorr(WidenMetrics(long_frames), MinOverlap))
           manifest == CorrelationManifest(corr)
       IN IF catalog = <<>>
          THEN /\ last_corr' = "catalog_missing"
               /\ UNCHANGED persistent
          ELSE IF long_frames = <<>>
          THEN /\ tables' = [tables EXCEPT ![CorrelationId] = EmptyDf]
               /\ last_corr' = "no_joinable_metrics"
               /\ UNCHANGED <<catalog, manifests>>
          ELSE /\ tables' = [tables EXCEPT ![CorrelationId] = corr]
               /\ manifests' = [manifests EXCEPT ![CorrelationId] = manifest]
               /\ catalog' = Upsert(catalog, manifest)
               /\ last_corr' = "done"
    /\ UNCHANGED <<pc, targets, catalog_entries, source_id, source_auth, runLocals,
                   manifest_entry, requests, ladder, last_run, world, pinned,
                   fetchVars, pureVars, endpoint>>

\* -------------------------------------------------------- validate_artifacts

\* _validate_entry records no error about the entry's own fields: the required
\* keys are there, citations has an anchor, and output_table_path names an
\* existing file.  (ingest.py adds "source" to every manifest that lacks it.)
ValidateEntry(entry) ==
    /\ entry.source_id # NoVal
    /\ entry.status # NoVal
    /\ entry.metric_category # NoVal
    /\ entry.has_citations
    /\ entry.anchor # NoVal
    /\ entry.has_manifest
    /\ entry.scores # NoScores
    /\ entry.has_path
    /\ Exists(entry.output_table_path)

\* ---------------------------------------------------------- specification

Next ==
    \/ \E sel \in Selections : IngestBegin(InventoryOrder, sel)
    \/ NotMapped
    \/ RunStart(ManualEnv)
    \/ RunApi(ManualEnv)
    \/ RunPage(ManualEnv)
    \/ RunManual(ManualEnv)
    \/ Score
    \/ WriteCatalog
    \/ RunCorrelation

Spec == Init /\ [][Next]_vars

\* One source resolved again and again, against every descriptor and every
\* behaviour of the endpoints and the manual directory.
NextLadder ==
    \/ IngestBegin(InventoryOrder, <<"s1">>)
    \/ RunStart(FullEnv)
    \/ RunApi(FullEnv)
    \/ RunPage(FullEnv)
    \/ RunManual(FullEnv)
    \/ Score
    \/ WriteCatalog

SpecLadder == Init /\ [][NextLadder]_vars

\* A data.gov.in descriptor that is open and fully declared: the flag, the API's
\* answer, one declared file and the manual directory vary.
OfficialEnv ==
    [FullEnv EXCEPT !.auth = {"open"},
                    !.manual = {"absent", "unreadable", "A"},
                    !.access_type = {"API"},
                    !.url = {TRUE},
                    !.resource_id = {"set"},
                    !.api_key_env = {TRUE},
                    !.api_result = {Raised, Returned(EmptyDf), Returned(FrameA("api"))},
                    !.page_decl = {"none", "files"},
                    !.page_fetch = {"ok"},
                    !.candidates = {<<>>, <<Raised>>, <<Returned(FrameA("page"))>>},
                    !.manual_fallback = {TRUE}]

\* An inventory of the macro source and a data.gov.in one, each with an
\* automated path and a manual file, ingested again and again.
OfficialInventory == <<"m1", "s1">>

NextOfficial ==
    \/ IngestBegin(OfficialInventory, <<>>)
    \/ MacroRun(MacroEnv)
    \/ RunStart(OfficialEnv)
    \/ RunApi(OfficialEnv)
    \/ RunPage(OfficialEnv)
    \/ RunManual(OfficialEnv)
    \/ Score
    \/ WriteCatalog

SpecOfficial == Init /\ [][NextOfficial]_vars

\* An inventory of a procurement source and a data.gov.in one, both curated by
\* hand, ingested again and again and correlated in between.
GapInventory == <<"p1", "s1">>

NextGap ==
    \/ IngestBegin(GapInventory, <<>>)
    \/ StubRun(StubEnv)
    \/ RunStart(ManualEnv)
    \/ RunApi(ManualEnv)
    \/ RunPage(ManualEnv)
    \/ RunManual(ManualEnv)
    \/ Score
    \/ WriteCatalog
    \/ RunCorrelation

SpecGap == Init /\ [][NextGap]_vars

\* Two sources ingested from manual files, each with a state column, a year
\* column and one metric column, over subsets of six (state, year) pairs.
SeriesKeys == {"e1", "e2", "e3"} \X {2020, 2021}

KeySets == {K \in SUBSET SeriesKeys : Cardinality(K) >= 4}

Shapes == {"varying", "constant"}

SeriesValue(k, shape) ==
    IF shape = "constant" THEN 1
    ELSE (k[2] - 2019) + 2 * (CASE k[1] = "e1" -> 0 [] k[1] = "e2" -> 1 [] OTHER -> 2)

Series(keys, shape) ==
    [cols |-> {"state", "year", "v"} \cup ProvenanceCols,
     rows |-> SetToSeq({Row("manual", k[1], k[2], SeriesValue(k, shape), 0) :
                           k \in keys})]

\* The store after one completed run_ingestion over the two sources, in either
\* inventory order.
InitTwoSources ==
    /\ \E ka \in KeySets, kb \in KeySets, sa \in Shapes, sb \in Shapes,
          first \in MappedSources \cup StubSources :
          LET ta == Series(ka, sa)
              tb == Series(kb, sb)
              ea == ScoredFrom(ResolvedManifest("s1", "manual_ingest", NoVal,
                                                "manual_upload", <<"manual">>, ta),
                               "s1", ta)
              eb == ScoredFrom(StubIngestManifest("p1", tb), "p1", tb)
          IN /\ tables = [p \in Paths |->
                            IF p = "s1" THEN ta ELSE IF p = "p1" THEN tb ELSE NoFile]
             /\ manifests = [p \in Paths |->
                               IF p = "s1" THEN ea ELSE IF p = "p1" THEN eb
                               ELSE Entry(NoVal, NoVal, NoVal, NoVal)]
             /\ catalog = IF first = "s1" THEN <<ea, eb>> ELSE <<eb, ea>>
    /\ InitLocals
    /\ pinned = FALSE

NextTwoSources == RunCorrelation

SpecTwoSources == InitTwoSources /\ [][NextTwoSources]_vars

\* The same, with every input staying as it was first observed.
InitReplay == InitCommon /\ pinned = TRUE

SpecReplay == InitReplay /\ [][NextLadder]_vars

\* -------------------------------------------------------- _fetch_api_pages

\* base_params["limit"]: run passes 5000; smaller sizes reach the page ceiling.
Limits == {1, 1000, DefaultLimit}

\* A field of the JSON payload: absent (None), an integer, or another value.
Absent == [kind |-> "absent", val |-> 0]

Text == [kind |-> "text", val |-> 0]

IntField(n) == [kind |-> "int", val |-> n]

\* payload["total"].
Totals == {Absent, Text, IntField(0), IntField(1000000000)}

\* payload["count"] or payload["records_count"]: a falsy value reads as absent.
Counts == {Absent, Text, IntField(1), IntField(1000000000)}

\* len(page_df): no record, fewer than requested, or a full page.
BatchSizes(lim) == {0, lim} \cup (IF lim > 1 THEN {1} ELSE {})

IsInt(x) == x.kind = "int"

\* One entry of the request log: an API request and its offset, the resource
\* page, or a candidate file with its place in the list and its URL path.
Requested(kind, key, path) == [kind |-> kind, key |-> key, path |-> path]

FetchStart(lim) ==
    /\ f_pc \in {"idle", "returned", "raised"}
    /\ c_pc = "idle"
    /\ f_pc' = "loop"
    /\ limit' = lim
    /\ offset' = 0
    /\ pages' = 0
    /\ visited' = 0
    /\ n_requests' = 0
    /\ last_offset' = 0
    /\ all_full' = TRUE
    /\ log' = <<>>
    /\ UNCHANGED <<mainVars, pureVars>>

\* while len(pages) < 200 is false: leave the loop.
FetchCeiling ==
    /\ f_pc = "loop"
    /\ ~(pages < MaxPages)
    /\ f_pc' = "returned"
    /\ UNCHANGED <<mainVars, pureVars, limit, offset, pages, visited, n_requests, last_offset,
                   all_full, log>>

\* A request whose response raise_for_status, json() or _parse_api_records rejects.
FetchRaise ==
    /\ f_pc = "loop"
    /\ pages < MaxPages
    /\ n_requests' = n_requests + 1
    /\ last_offset' = offset
    /\ log' = Append(log, Requested("api", offset, NoVal))
    /\ all_full' = FALSE
    /\ f_pc' = "raised"
    /\ UNCHANGED <<mainVars, pureVars, limit, offset, pages, visited>>

\* Faulty variant: the cursor stays where it is once it has left 0.
NextOffsetStuck(off, lim) == IF off = 0 THEN lim ELSE off

\* offset += limit.
NextOffset(off, lim) == off + lim

\* Faulty variant: no offset ceiling.
OffsetNeverExceeded(off) == FALSE

\* The offset ceiling, tested after the cursor has moved.
OffsetExceeded(off) == off > MaxOffset

\* One pass of the loop body with a parsed response.
FetchPage(batch, total, count) ==
    /\ f_pc = "loop"
    /\ pages < MaxPages
    /\ n_requests' = n_requests + 1
    /\ last_offset' = offset
    /\ log' = Append(log, Requested("api", offset, NoVal))
    /\ LET seen == visited + batch
           stop == \/ IsInt(total) /\ seen >= total.val
                   \/ IF IsInt(count) THEN count.val < limit ELSE batch < limit
                   \/ total = Absent /\ batch < limit
       IN /\ all_full' = (all_full /\ batch = limit /\ ~stop)
          /\ IF batch = 0
             THEN /\ f_pc' = "returned"
                  /\ UNCHANGED <<pages, visited, offset>>
             ELSE /\ pages' = pages + 1
                  /\ visited' = seen
                  /\ IF stop
                     THEN /\ f_pc' = "returned"
                          /\ UNCHANGED offset
                     ELSE /\ offset' = NextOffset(offset, limit)
                          /\ f_pc' = IF OffsetExceeded(NextOffset(offset, limit))
                                     THEN "returned" ELSE "loop"
    /\ UNCHANGED <<mainVars, pureVars, limit>>

NextFetch ==
    \/ \E lim \in Limits : FetchStart(lim)
    \/ FetchCeiling
    \/ FetchRaise
    \/ \E batch \in BatchSizes(limit), total \in Totals, count \in Counts :
          FetchPage(batch, total, count)

SpecFetch == Init /\ [][NextFetch]_vars

\* ----------------------------------------------- page discovery, per candidate

\* urlparse(candidate).path.rstrip("/").lower() of a candidate URL.
CandidatePaths == {"/a", "/b"}

\* What _read_file_candidate does with a URL: raises, returns None, returns an
\* empty table or returns rows.
ReadResults == {Raised, ReturnedNone, Returned(EmptyDf), Returned(FrameA("page"))}

\* Candidate URLs are distinct strings (both collectors de-duplicate); two of
\* them may still share a path.
Listings ==
    UNION {[1..n -> [path : CandidatePaths, result : ReadResults]] : n \in 0..MaxListed}

\* Faulty variant: no path is remembered.
AlreadySeenNever(path, seen) == FALSE

\* candidate_path in seen_candidate_paths.
AlreadySeen(path, seen) == path \in seen

\* Entry of the strategy: the resource page is requested when one is declared,
\* then the candidate list is collected.  The strategy is entered only while
\* df_frames is empty: the API strategy was skipped, raised or returned no row.
PageStart(decl, pf, listed) ==
    /\ c_pc = "idle"
    /\ f_pc \in {"idle", "raised"} \/ (f_pc = "returned" /\ pages = 0)
    /\ decl # "none"
    /\ LET has_page == decl \in {"page", "both"}
       IN /\ log' = IF has_page THEN Append(log, Requested("page", 0, NoVal)) ELSE log
          /\ c_status' = IF f_pc = "returned" THEN "automated" ELSE "candidate_ready"
          /\ c_anchor' = IF f_pc = "returned" THEN Anchor("api", 0)
                         ELSE Anchor("manual_upload", 0)
          /\ c_seen' = {}
          /\ c_accepted' = 0
          /\ c_failures' = 0
          /\ IF has_page /\ pf = "raise"
             THEN /\ c_pc' = "done"
                  /\ c_candidates' = <<>>
                  /\ c_i' = 0
                  /\ c_skip' = "official_page_fetch_failed"
             ELSE /\ c_pc' = "loop"
                  /\ c_candidates' = IF decl \in {"files", "both"} \/ pf = "ok"
                                     THEN listed ELSE <<>>
                  /\ c_i' = 1
                  /\ c_skip' = NoVal
    /\ UNCHANGED <<mainVars, stampVars, nameVars, scoreVars, corrVars, f_pc, limit, offset, pages,
                   visited, n_requests, last_offset, all_full>>

\* One pass of the loop over candidates.
CandidateStep ==
    /\ c_pc = "loop"
    /\ c_i <= Len(c_candidates)
    /\ LET cand == c_candidates[c_i]
       IN IF AlreadySeen(cand.path, c_seen)
          THEN /\ c_i' = c_i + 1
               /\ UNCHANGED <<log, c_pc, c_seen, c_accepted, c_failures, c_status>>
          ELSE /\ c_seen' = c_seen \cup {cand.path}
               /\ log' = Append(log, Requested("file", c_i, cand.path))
               /\ IF Usable(cand.result)
                  THEN /\ c_accepted' = c_i
                       /\ c_status' = "ok"
                       /\ c_pc' = "after"
                       /\ UNCHANGED <<c_i, c_failures>>
                  ELSE /\ c_failures' = c_failures + 1
                       /\ c_i' = c_i + 1
                       /\ UNCHANGED <<c_pc, c_accepted, c_status>>
    /\ UNCHANGED <<mainVars, stampVars, nameVars, scoreVars, corrVars, f_pc, limit, offset, pages,
                   visited, n_requests, last_offset, all_full, c_candidates,
                   c_anchor, c_skip>>

\* After the loop: the anchor of the accepted candidate, or the RuntimeError
\* the strategy's own handler turns into a skip reason.
CandidateEnd ==
    /\ c_pc = "after" \/ (c_pc = "loop" /\ c_i > Len(c_candidates))
    /\ c_pc' = "done"
    /\ IF c_accepted # 0
       THEN /\ c_anchor' = Anchor("resource_file", c_accepted)
            /\ c_skip' = NoVal
       ELSE /\ c_skip' = "official_page_fetch_failed"
            /\ UNCHANGED c_anchor
    /\ UNCHANGED <<mainVars, stampVars, nameVars, scoreVars, corrVars, fetchVars, c_candidates, c_i,
                   c_seen, c_accepted, c_failures, c_status>>

\* The resolution goes on to the manual fallback; its requests are over.
PageDone ==
    /\ c_pc = "done"
    /\ c_pc' = "idle"
    /\ f_pc' = "idle"
    /\ log' = <<>>
    /\ c_candidates' = <<>>
    /\ c_i' = 0
    /\ c_seen' = {}
    /\ c_accepted' = 0
    /\ c_failures' = 0
    /\ c_status' = NoVal
    /\ c_anchor' = NoAnchor
    /\ c_skip' = NoVal
    /\ UNCHANGED <<mainVars, stampVars, nameVars, scoreVars, corrVars, limit, offset, pages, visited,
                   n_requests, last_offset, all_full>>

PageDecls == {"page", "files", "both"}

PageFetches == {"raise", "http_error", "ok"}

NextPage ==
    \/ /\ c_pc = "idle"
       /\ \E decl \in PageDecls, pf \in PageFetches, listed \in Listings :
             PageStart(decl, pf, listed)
    \/ CandidateStep
    \/ CandidateEnd
    \/ PageDone

SpecPage == Init /\ [][NextPage]_vars

ShortListings == {listed \in Listings : Len(listed) <= 2}

\* One resolution request by request: the API pages (each response empty or a
\* full page), then page discovery when the API gave no row.
NextResolve ==
    \/ \E lim \in Limits \ {1} : FetchStart(lim)
    \/ FetchCeiling
    \/ FetchRaise
    \/ \E batch \in {0, limit}, total \in Totals, count \in Counts :
          FetchPage(batch, total, count)
    \/ /\ c_pc = "idle"
       /\ \E decl \in PageDecls, pf \in PageFetches, listed \in ShortListings :
             PageStart(decl, pf, listed)
    \/ CandidateStep
    \/ CandidateEnd
    \/ PageDone

SpecResolve == Init /\ [][NextResolve]_vars

\* ----------------------------------------------------------------- evaluate

\* A table with one missing cell out of eight.
FrameM == [cols |-> {"state", "year", "v", "w"},
           rows |-> <<Row("api", "e1", 2020, NaN, 5), Row("api", "e1", 2021, 2, 3)>>]

ScoredFrames == {EmptyDf, FrameA("api"), FrameM, FrameN("manual")}

DeclaredStatuses == {"ok", "automated", "manual_ingest", "stub_parsed",
                     "metadata_only", "proxy_stub", "stubs_disabled", "disabled",
                     "stubbed_manual_gap", "candidate_ready"}

Statuses == DeclaredStatuses \cup {"", "failed", "skipped", "not_mapped", "generated"}

\* Ages on both sides of each recency step of an annual source.
Timestamps ==
    {NoTimestamp, BadTimestamp, NaiveTimestamp}
    \cup {Timestamp(d) : d \in {0, 365, 366, 730, 731, 1460, 1461}}

Items ==
    [status : Statuses, retrieved_at : Timestamps,
     update_frequency : {"daily", "annual"},
     reliability_grade : {"A", "B", "C", "D"}, official_flag : BOOLEAN]

\* evaluate(df, item) returns.
EvaluateCall(df, item) ==
    /\ e_pc = "idle"
    /\ ~RecencyRaises(item.retrieved_at)
    /\ e_pc' = "returned"
    /\ e_df' = df
    /\ e_item' = item
    /\ LET scores == SubScores(df, item)
       IN \E badge \in Badges(scores) :
            e_out' = [completeness_score |-> scores.completeness_score,
                      recency_score |-> scores.recency_score,
                      provenance_score |-> scores.provenance_score,
                      consistency_score |-> scores.consistency_score,
                      overall_confidence_badge |-> badge]
    /\ UNCHANGED <<mainVars, stampVars, nameVars, fetchVars, corrVars, pageVars>>

\* evaluate(df, item) raises inside recency_score.
EvaluateRaise(df, item) ==
    /\ e_pc = "idle"
    /\ RecencyRaises(item.retrieved_at)
    /\ e_pc' = "raised"
    /\ e_df' = df
    /\ e_item' = item
    /\ e_out' = NoResult
    /\ UNCHANGED <<mainVars, stampVars, nameVars, fetchVars, corrVars, pageVars>>

\* The caller has taken the result, or the exception.
EvaluateDone ==
    /\ e_pc \in {"returned", "raised"}
    /\ e_pc' = "idle"
    /\ e_df' = EmptyDf
    /\ e_item' = DefaultItem
    /\ e_out' = NoResult
    /\ UNCHANGED <<mainVars, stampVars, nameVars, fetchVars, corrVars, pageVars>>

NextEvaluate ==
    \/ \E df \in ScoredFrames, item \in Items : EvaluateCall(df, item)
    \/ \E df \in ScoredFrames, item \in Items : EvaluateRaise(df, item)
    \/ EvaluateDone

SpecEvaluate == Init /\ [][NextEvaluate]_vars

\* ------------------------------------------------------------ _pairwise_corr

\* Three metrics of two sources over three (entity, year) keys; each cell is
\* missing or holds one of two values.
CorrKeys == {<<"e1", 2020>>, <<"e1", 2021>>, <<"e2", 2020>>}

CorrMetricKeys == <<<<"s1", "v">>, <<"s1", "w">>, <<"p1", "v">>>>

Grids == [(1..Len(CorrMetricKeys)) \X CorrKeys -> {NaN, 1, 2}]

MinOverlaps == {1, 2, 3}

\* The long frame _build_metric_long leaves for one source: no row for a
\* missing value.
LongOf(g, sid) ==
    {[dimension_value |-> c[2][1], year |-> c[2][2], value |-> g[c],
      metric_key |-> CorrMetricKeys[c[1]]] :
        c \in {d \in DOMAIN g : CorrMetricKeys[d[1]][1] = sid /\ g[d] # NaN}}

NonEmptyLong(long) == long # {}

\* long_frames as run_correlation collects them: empty ones are left out.
LongInput(g) == SelectSeq(<<LongOf(g, "s1"), LongOf(g, "p1")>>, NonEmptyLong)

\* _pairwise_corr(wide, min_overlap) on the merged frame of long_frames.
PairwiseCall(long_frames, min_overlap) ==
    /\ k_pc = "idle"
    /\ k_pc' = "returned"
    /\ k_wide' = WidenMetrics(long_frames)
    /\ k_min_overlap' = min_overlap
    /\ k_records' = PairwiseCorr(WidenMetrics(long_frames), min_overlap)
    /\ UNCHANGED <<mainVars, stampVars, nameVars, fetchVars, scoreVars, pageVars>>

\* The caller has taken the records.
PairwiseDone ==
    /\ k_pc = "returned"
    /\ k_pc' = "idle"
    /\ k_wide' = NoWide
    /\ k_min_overlap' = MinOverlap
    /\ k_records' = <<>>
    /\ UNCHANGED <<mainVars, stampVars, nameVars, fetchVars, scoreVars, pageVars>>

NextPairwise ==
    \/ /\ k_pc = "idle"
       /\ \E g \in Grids, min_overlap \in MinOverlaps :
             PairwiseCall(LongInput(g), min_overlap)
    \/ PairwiseDone

SpecPairwise == Init /\ [][NextPairwise]_vars

\* --------------------------------------------------- provenance columns in run

\* What a cell of a payload holds: a value, or nothing.
NaCell == "<NA>"

StampCells == {"t1", NaCell}

\* Timestamps datetime.now() may give.
Instants == {"t1", "t2"}

\* dataset_title of the descriptor, which may be absent.
Titles == {"title", NaCell}

\* Standardised payloads: a metric column and any of the provenance columns the
\* publisher's file may already carry, up to two rows.
StampColumnSets == {{"v"} \cup S : S \in SUBSET {"source_id", "dataset_source",
                                                  "retrieved_at"}}

StampPayloads ==
    UNION {{[cols |-> C, rows |-> r] :
               r \in UNION {[1..n -> [C -> StampCells]] : n \in 0..2}} :
           C \in StampColumnSets}

\* Faulty variant: retrieved_at is added like the other four, only when absent.
AddProvenanceIfAbsent(df, sid, title, now) ==
    LET Default(c) == CASE c = "source_type" -> "official_measured"
                        [] c = "source_id" -> sid
                        [] c = "metric_category" -> "official_measured"
                        [] c = "dataset_source" -> title
                        [] c = "retrieved_at" -> now
        Fill(row) == [c \in df.cols \cup ProvenanceCols |->
                        IF c \in df.cols THEN row[c] ELSE Default(c)]
    IN [cols |-> df.cols \cup ProvenanceCols,
        rows |-> [i \in 1..Len(df.rows) |-> Fill(df.rows[i])]]

\* Four columns are added when the frame has no column of that name;
\* retrieved_at is assigned on every row.
AddProvenance(df, sid, title, now) ==
    LET Default(c) == CASE c = "source_type" -> "official_measured"
                        [] c = "source_id" -> sid
                        [] c = "metric_category" -> "official_measured"
                        [] c = "dataset_source" -> title
        Fill(row) == [c \in df.cols \cup ProvenanceCols |->
                        IF c = "retrieved_at" THEN now
                        ELSE IF c \in df.cols THEN row[c]
                        ELSE Default(c)]
    IN [cols |-> df.cols \cup ProvenanceCols,
        rows |-> [i \in 1..Len(df.rows) |-> Fill(df.rows[i])]]

\* The tail of run for a resolved source: the table is stamped and written and
\* the manifest takes the same instant.
StampCall(df, sid, title, now) ==
    /\ t_pc = "idle"
    /\ t_pc' = "returned"
    /\ t_df' = df
    /\ t_out' = AddProvenance(df, sid, title, now)
    /\ t_at' = now
    /\ UNCHANGED <<mainVars, fetchVars, scoreVars, corrVars, pageVars, nameVars>>

StampDone ==
    /\ t_pc = "returned"
    /\ t_pc' = "idle"
    /\ t_df' = [cols |-> {}, rows |-> <<>>]
    /\ t_out' = [cols |-> {}, rows |-> <<>>]
    /\ t_at' = NoVal
    /\ UNCHANGED <<mainVars, fetchVars, scoreVars, corrVars, pageVars, nameVars>>

NextStamp ==
    \/ /\ t_pc = "idle"
       /\ \E df \in StampPayloads, sid \in MappedSources, title \in Titles,
             now \in Instants : StampCall(df, sid, title, now)
    \/ StampDone

SpecStamp == Init /\ [][NextStamp]_vars

\* ------------------------------------------------------------ _standardize_df

\* Characters of a column name: a capital letter, a space, a newline, a tab,
\* the two parentheses and the percent sign.
NameChars == {"A", " ", "NL", "TAB", "(", ")", "%"}

Names == UNION {[1..n -> NameChars] : n \in 0..MaxNameLen}

RECURSIVE LStrip(_)
LStrip(s) ==
    IF s # <<>> /\ Head(s) \in {" ", "NL", "TAB"} THEN LStrip(Tail(s)) ELSE s

RECURSIVE RStrip(_)
RStrip(s) ==
    IF s # <<>> /\ s[Len(s)] \in {" ", "NL", "TAB"}
    THEN RStrip(SubSeq(s, 1, Len(s) - 1))
    ELSE s

\* str.strip().
Strip(s) == RStrip(LStrip(s))

\* str.replace(old, new) for a one-character old.
RECURSIVE ReplaceChar(_, _, _)
ReplaceChar(s, old, new) ==
    IF s = <<>> THEN <<>>
    ELSE (IF Head(s) = old THEN new ELSE <<Head(s)>>) \o ReplaceChar(Tail(s), old, new)

\* str.replace("  ", " "): one pass from the left over non-overlapping pairs.
RECURSIVE ReplaceDoubleSpace(_)
ReplaceDoubleSpace(s) ==
    IF Len(s) < 2 THEN s
    ELSE IF s[1] = " " /\ s[2] = " "
    THEN <<" ">> \o ReplaceDoubleSpace(SubSeq(s, 3, Len(s)))
    ELSE <<s[1]>> \o ReplaceDoubleSpace(Tail(s))

\* str.lower().
Lower(s) == [i \in 1..Len(s) |-> IF s[i] = "A" THEN "a" ELSE s[i]]

\* The two list comprehensions over out.columns.
StandardizeName(col) ==
    LET first == ReplaceDoubleSpace(ReplaceChar(Strip(col), "NL", <<" ">>))
    IN ReplaceChar(ReplaceChar(ReplaceChar(ReplaceChar(Lower(first),
           " ", <<"_">>), "(", <<>>), ")", <<>>), "%", <<"p", "c", "t">>)

\* A frame as _standardize_df sees it: column names and a number of rows.
StandardizeDf(df) ==
    [columns |-> [i \in 1..Len(df.columns) |-> StandardizeName(df.columns[i])],
     rows |-> df.rows]

StandardizeCall(df) ==
    /\ z_pc = "idle"
    /\ z_pc' = "returned"
    /\ z_df' = df
    /\ z_out' = StandardizeDf(df)
    /\ UNCHANGED <<mainVars, fetchVars, scoreVars, corrVars, pageVars, stampVars>>

StandardizeDone ==
    /\ z_pc = "returned"
    /\ z_pc' = "idle"
    /\ z_df' = [columns |-> <<>>, rows |-> 0]
    /\ z_out' = [columns |-> <<>>, rows |-> 0]
    /\ UNCHANGED <<mainVars, fetchVars, scoreVars, corrVars, pageVars, stampVars>>

NextStandardize ==
    \/ /\ z_pc = "idle"
       /\ \E name \in Names, n \in 0..1 :
             StandardizeCall([columns |-> <<name>>, rows |-> n])
    \/ StandardizeDone

SpecStandardize == Init /\ [][NextStandardize]_vars

\* ================================================================ properties

\* ---- strategy precedence (SpecLadder)

ApiYielded == \E i \in 1..Len(ladder) : ladder[i] = Attempt("api", TRUE)

Rank(strategy) ==
    CASE strategy = "api" -> 1
      [] strategy = "page" -> 2
      [] strategy = "manual" -> 3

\* C1: when the API strategy of a resolution returned a non-empty table, the
\* table that resolution writes holds API rows only: no row of the manual
\* file is in it, whether or not a manual file is there.
C1_ApiExcludesManual ==
    (pc = "score" /\ ApiYielded) =>
        /\ manifest_entry.has_manifest
        /\ manifest_entry.output_sha = Sha256(tables[source_id])
        /\ tables[source_id].rows # <<>>
        /\ \A i \in 1..Len(tables[source_id].rows) :
               tables[source_id].rows[i].o = "api"
        /\ "manual" \notin manifest_entry.raw_files

\* The API answered with rows while a manual file with rows was in place.
C1_ApiWithManualFile ==
    /\ pc = "score"
    /\ ApiYielded
    /\ manual_df = FrameA("manual")
    /\ manifest_entry.row_count = 2

\* C2: strategies are attempted in the order API, page discovery, manual; a
\* strategy is attempted only if none before it yielded a non-empty table; and
\* the frame list that is normalised holds exactly one frame, from the last
\* strategy attempted.
C2_LadderOrder ==
    /\ \A i, j \in 1..Len(ladder) :
          i < j => /\ Rank(ladder[i].strategy) < Rank(ladder[j].strategy)
                   /\ ~ladder[i].yielded
    /\ (pc = "score" /\ manifest_entry.has_manifest) =>
          /\ Len(df_frames) = 1
          /\ ladder # <<>>
          /\ \A i \in 1..Len(df_frames[1].rows) :
                 df_frames[1].rows[i].o = ladder[Len(ladder)].strategy
          /\ manifest_entry.raw_files = {ladder[Len(ladder)].strategy}

\* All three strategies were attempted and the last one gave the table.
C2_ThreeAttempts ==
    /\ pc = "score"
    /\ Len(ladder) = 3
    /\ manifest_entry.has_manifest
    /\ manifest_entry.status = "manual_ingest"
    /\ manifest_entry.row_count = 2

\* ---- pagination (SpecFetch)

\* C9: _fetch_api_pages issues at most 200 requests and never asks for an
\* offset above 200000; every pass through the loop adds a page and moves the
\* offset, and an API that returns full pages for ever is left with the pages
\* fetched so far.
C9_FetchBounded ==
    /\ n_requests <= MaxPages
    /\ last_offset <= MaxOffset
    /\ f_pc = "loop" =>
          (pages = n_requests /\ offset = pages * limit /\ offset <= MaxOffset)
    /\ (f_pc = "returned" /\ all_full) =>
          /\ pages = Min(MaxPages, (MaxOffset \div limit) + 1)
          /\ n_requests = pages
          /\ visited = pages * limit

\* Full pages of the default size until the offset ceiling stops the loop.
C9_OffsetCeilingReached ==
    /\ f_pc = "returned"
    /\ all_full
    /\ limit = DefaultLimit
    /\ n_requests = 41
    /\ last_offset = MaxOffset

\* ---- terminal states of a resolution (SpecLadder)

\* C3: a source whose auth is restricted or captcha ends the resolution in the
\* blocked state: run returns, the manifest is the disabled/auth_restriction
\* one, no request was issued and no strategy was attempted, whatever the
\* other flags and whatever is in the manual directory.
C3_BlockedTerminal ==
    source_auth \in {"restricted", "captcha"} =>
        /\ last_run # "aborted"
        /\ pc = "score" =>
              /\ manifest_entry = BlockedManifest(source_id)
              /\ requests = {}
              /\ ladder = <<>>

\* C4: a resolution that ends failed has written a one-row placeholder table
\* to the output path.
C4_FailedPlaceholder ==
    (pc = "score" /\ manifest_entry.status = "failed") =>
        /\ Exists(source_id)
        /\ Len(tables[source_id].rows) = 1

\* ---- the catalog (Spec, SpecReplay)

\* C5: a run of run_ingestion ends only by write_catalog, with every target
\* processed, whatever fails inside the resolution of one source.
C5_RunReachesWriteCatalog ==
    [][(pc # "idle" /\ pc' = "idle") =>
          (targets = <<>> /\ catalog' = catalog_entries)]_vars

\* C6: neither the catalog on disk nor the working list holds two entries of
\* one source_id, the correlation_matrix entry included.
C6_OneEntryPerSource ==
    \A sid \in InventoryIds \cup {CorrelationId} :
        /\ CountOf(catalog, sid) <= 1
        /\ CountOf(catalog_entries, sid) <= 1

\* A catalog of three entries in which the entry of s1 was written at least
\* twice: its table is from a resolved run, its entry from a blocked one.
C6_UpsertedTwice ==
    /\ pc = "idle"
    /\ Len(catalog) = 3
    /\ CountOf(catalog, CorrelationId) = 1
    /\ CountOf(catalog, "s1") = 1
    /\ EntryOf(catalog, "s1").status = "disabled"
    /\ Exists("s1")

\* C7: with inputs that stay as they were, scoring a source that already has
\* an entry leaves exactly one entry of it, with the same status and row_count.
C7_ReplayIdempotent ==
    [][(pc = "score" /\ CountOf(catalog_entries, source_id) = 1) =>
          /\ CountOf(catalog_entries', source_id) = 1
          /\ EntryOf(catalog_entries', source_id).row_count
                = EntryOf(catalog_entries, source_id).row_count
          /\ EntryOf(catalog_entries', source_id).status
                = EntryOf(catalog_entries, source_id).status]_vars

\* The second run over a mirrored payload has scored the source: one entry,
\* one row after duplicates were dropped.
C7_SecondRunScored ==
    /\ pc = "loop"
    /\ targets = <<>>
    /\ catalog # <<>>
    /\ CountOf(catalog, "s1") = 1
    /\ CountOf(catalog_entries, "s1") = 1
    /\ EntryOf(catalog_entries, "s1").row_count = 1

Unresolved(entry) == entry.status \in {"disabled", "failed"}

\* C8: the entry of a source whose last resolution was blocked or failed has
\* no citations, no file inventory, no hash and no row_count, also when the
\* resolution before it had produced them.
C8_NoSurvivingFields ==
    \A entries \in {catalog, catalog_entries} :
        \A i \in 1..Len(entries) :
            Unresolved(entries[i]) =>
                /\ ~entries[i].has_citations
                /\ entries[i].anchor = NoVal
                /\ ~entries[i].has_manifest
                /\ entries[i].raw_files = {}
                /\ entries[i].output_file = NoVal
                /\ entries[i].output_sha = NoSha
                /\ entries[i].row_count = -1

\* The table of an earlier resolved run is still there while the entry just
\* upserted is that of a failed resolution.
C8_FailedAfterResolved ==
    /\ pc = "loop"
    /\ Exists("s1")
    /\ CountOf(catalog, "s1") = 1
    /\ EntryOf(catalog, "s1").has_citations
    /\ CountOf(catalog_entries, "s1") = 1
    /\ EntryOf(catalog_entries, "s1").status = "failed"

\* C10: between calls, the hash the correlation_matrix manifest lists for its
\* output file is the digest of the file now at that path, in the catalog and
\* in the manifest document.
C10_CorrelationHash ==
    (pc = "idle" /\ CountOf(catalog, CorrelationId) = 1) =>
        /\ EntryOf(catalog, CorrelationId).output_sha = Sha256(tables[CorrelationId])
        /\ manifests[CorrelationId].output_sha = Sha256(tables[CorrelationId])

\* ---- scoring (SpecEvaluate)

BadgeRank(badge) ==
    CASE badge = "Low" -> 1
      [] badge = "Med" -> 2
      [] badge = "High" -> 3

\* C11: what evaluate() returns for status manual_ingest is, sub-score by
\* sub-score and in its badge, never above what it returns for the same table
\* and a context that differs only in having status automated.
C11_ManualNotAboveAutomated ==
    (e_pc = "returned" /\ e_item.status = "manual_ingest") =>
        LET automated == SubScores(e_df, [e_item EXCEPT !.status = "automated"])
        IN /\ e_out.completeness_score <= automated.completeness_score
           /\ e_out.recency_score <= automated.recency_score
           /\ e_out.provenance_score <= automated.provenance_score
           /\ e_out.consistency_score <= automated.consistency_score
           /\ \A badge \in Badges(automated) :
                  BadgeRank(e_out.overall_confidence_badge) <= BadgeRank(badge)

\* A table scored Med as manual_ingest where automated gives High.
C11_ManualIngestScored ==
    /\ e_pc = "returned"
    /\ e_item.status = "manual_ingest"
    /\ e_df = FrameM
    /\ e_out.overall_confidence_badge = "Med"
    /\ Badges(SubScores(e_df, [e_item EXCEPT !.status = "automated"])) = {"High"}

\* C12: each of the four sub-scores evaluate() returns is at most the ceiling
\* of the status, for every status STATUS_CONFIDENCE lists.
C12_SubScoresCapped ==
    (e_pc = "returned" /\ e_item.status \in DeclaredStatuses) =>
        LET ceiling == StatusFactor(e_item.status)
        IN /\ e_out.completeness_score <= ceiling
           /\ e_out.recency_score <= ceiling
           /\ e_out.provenance_score <= 1000 * ceiling
           /\ e_out.consistency_score <= ceiling

\* C13: evaluate() returns the badge High for no status other than ok,
\* automated and manual_ingest.
C13_NoHighBadgeForLowTrust ==
    (e_pc = "returned" /\ e_item.status \notin {"ok", "automated", "manual_ingest"}) =>
        e_out.overall_confidence_badge # "High"

\* The best table and context there is, scored as stub_parsed: Med.
C13_BestStubScored ==
    /\ e_pc = "returned"
    /\ e_item.status = "stub_parsed"
    /\ e_df = FrameA("api")
    /\ e_item.retrieved_at = Timestamp(0)
    /\ e_item.reliability_grade = "A"
    /\ e_item.official_flag
    /\ e_out.overall_confidence_badge = "Med"

HasNegative(df, col) ==
    col \in df.cols /\ \E i \in 1..Len(df.rows) :
                           df.rows[i][col] # NaN /\ df.rows[i][col] < 0

\* C14: the manifest run_ingestion writes for a source resolved from a manual
\* file whose table has a negative value in column v, which the source
\* declares non-negative, has status manual_ingest and a consistency_score of
\* at most 0.75.
C14_NegativeLowersConsistency ==
    (/\ pc = "loop"
     /\ source_id \in MappedSources
     /\ manifests[source_id].has_path
     /\ manifests[source_id].raw_files = {"manual"}
     /\ HasNegative(tables[source_id], "v")) =>
        /\ manifests[source_id].status = "manual_ingest"
        /\ manifests[source_id].scores.consistency_score <= 750


\* ---- pairwise correlation (SpecPairwise)

\* The (entity, year) rows of the merged frame where both metrics hold a value.
CoObserved(wide, a, b) ==
    {k \in wide.index :
        /\ \E r \in wide.records :
              <<r.dimension_value, r.year>> = k /\ r.metric_key = a
        /\ \E r \in wide.records :
              <<r.dimension_value, r.year>> = k /\ r.metric_key = b}

\* The distinct values a metric takes over a set of rows.
ValuesOver(wide, m, keys) ==
    {r.value : r \in {q \in wide.records :
                        q.metric_key = m /\ <<q.dimension_value, q.year>> \in keys}}

RecordsOf(a, b) ==
    {i \in 1..Len(k_records) :
        k_records[i].metric_a = a /\ k_records[i].metric_b = b}

MetricPairs ==
    {p \in (1..Len(k_wide.columns)) \X (1..Len(k_wide.columns)) : p[1] < p[2]}

\* C15: _pairwise_corr returns no record for a pair of metrics whose
\* co-observed rows are fewer than min_overlap, and every record it returns
\* has overlap_records at least min_overlap and equal to the number of
\* co-observed rows of its two metrics.
C15_OverlapThreshold ==
    k_pc = "returned" =>
        /\ \A p \in MetricPairs :
              Cardinality(CoObserved(k_wide, k_wide.columns[p[1]],
                                     k_wide.columns[p[2]])) < k_min_overlap
              => RecordsOf(k_wide.columns[p[1]], k_wide.columns[p[2]]) = {}
        /\ \A i \in 1..Len(k_records) :
              /\ k_records[i].overlap_records >= k_min_overlap
              /\ k_records[i].overlap_records =
                    Cardinality(CoObserved(k_wide, k_records[i].metric_a,
                                           k_records[i].metric_b))

\* A call with min_overlap 3 that keeps one pair and drops another whose two
\* metrics both vary over their two co-observed rows.
C15_ShortPairDropped ==
    /\ k_pc = "returned"
    /\ k_min_overlap = 3
    /\ k_records # <<>>
    /\ \E p \in MetricPairs :
          LET a == k_wide.columns[p[1]]
              b == k_wide.columns[p[2]]
              co == CoObserved(k_wide, a, b)
          IN /\ Cardinality(co) = 2
             /\ Cardinality(ValuesOver(k_wide, a, co)) = 2
             /\ Cardinality(ValuesOver(k_wide, b, co)) = 2
             /\ RecordsOf(a, b) = {}

\* C16: _pairwise_corr returns no record for a pair of metrics one of which
\* takes a single distinct value over the co-observed rows, whatever
\* min_overlap is.
C16_ConstantPairDropped ==
    k_pc = "returned" =>
        \A p \in MetricPairs :
            LET a == k_wide.columns[p[1]]
                b == k_wide.columns[p[2]]
                co == CoObserved(k_wide, a, b)
            IN (\/ Cardinality(ValuesOver(k_wide, a, co)) <= 1
                \/ Cardinality(ValuesOver(k_wide, b, co)) <= 1)
               => RecordsOf(a, b) = {}

\* A call with min_overlap 1 where a pair with three co-observed rows has a
\* constant metric and is dropped, while another pair is kept.
C16_ConstantWithMinOverlapOne ==
    /\ k_pc = "returned"
    /\ k_min_overlap = 1
    /\ k_records # <<>>
    /\ \E p \in MetricPairs :
          LET a == k_wide.columns[p[1]]
              b == k_wide.columns[p[2]]
              co == CoObserved(k_wide, a, b)
          IN /\ Cardinality(co) = 3
             /\ Cardinality(ValuesOver(k_wide, a, co)) = 1
             /\ Cardinality(ValuesOver(k_wide, b, co)) = 2
             /\ RecordsOf(a, b) = {}

\* ---- inputs of run_correlation (SpecGap)

\* The statuses of a manual-gap placeholder.
GapStatuses == {ManualStatus(allow_auto) : allow_auto \in BOOLEAN}

Eligible(entries, sid) ==
    \E i \in 1..Len(entries) :
        /\ entries[i].source_id = sid
        /\ entries[i].metric_category # "model_output"
        /\ entries[i].status \notin GapStatuses

\* C18: every record a run_correlation call writes has as source_a and as
\* source_b a source whose entry in the catalog the call read is neither a
\* model_output entry (the correlation_matrix entry of an earlier call
\* included) nor a manual-gap placeholder.
C18_EligibleSourcesOnly ==
    [][(pc = "idle" /\ pc' = "idle" /\ last_corr' = "done") =>
          \A i \in 1..Len(tables'[CorrelationId].rows) :
              /\ Eligible(catalog, tables'[CorrelationId].rows[i].source_a)
              /\ Eligible(catalog, tables'[CorrelationId].rows[i].source_b)]_vars

\* ---- two overlapping sources (SpecTwoSources)

KeysOf(df) == {<<df.rows[i].state, df.rows[i].year>> : i \in 1..Len(df.rows)}

SharedKeys == KeysOf(tables["s1"]) \cap KeysOf(tables["p1"])

ValuesAt(df, keys) ==
    {df.rows[i].v : i \in {j \in 1..Len(df.rows) :
                              <<df.rows[j].state, df.rows[j].year>> \in keys}}

FiveSharedVarying ==
    /\ Cardinality(SharedKeys) = 5
    /\ Cardinality(ValuesAt(tables["s1"], SharedKeys)) > 1
    /\ Cardinality(ValuesAt(tables["p1"], SharedKeys)) > 1

\* C17: when the catalog holds two eligible sources whose tables have a state
\* column, a year column and one metric column each and share exactly five
\* (state, year) pairs over which neither metric is constant, the table
\* run_correlation writes has exactly one record: overlap_records is 5,
\* source_a and source_b are the two source ids, and year_min <= year_max are
\* the least and greatest year of the shared pairs.
C17_OneRecordForFiveShared ==
    (last_corr = "done" /\ FiveSharedVarying) =>
        LET rows == tables[CorrelationId].rows
        IN /\ Len(rows) = 1
           /\ rows[1].overlap_records = 5
           /\ {rows[1].source_a, rows[1].source_b} = {"s1", "p1"}
           /\ rows[1].year_min <= rows[1].year_max
           /\ rows[1].year_min = SetMin({k[2] : k \in SharedKeys})
           /\ rows[1].year_max = SetMax({k[2] : k \in SharedKeys})

\* run_correlation has run over two varying tables of five and six rows.
C17_FiveOfSixShared ==
    /\ last_corr = "done"
    /\ FiveSharedVarying
    /\ Len(tables["s1"].rows) = 5
    /\ Len(tables["p1"].rows) = 6
    /\ Len(tables[CorrelationId].rows) = 1

\* ---- validator contract (Spec)

\* C19: every entry of the persisted catalog carries source_id, status,
\* metric_category, citations, manifest, a confidence badge and an
\* output_table_path that names an existing file, whatever the outcome of the
\* resolution that produced it.
C19_CatalogEntriesValid ==
    \A i \in 1..Len(catalog) : ValidateEntry(catalog[i])

\* ---- the API strategy (SpecLadder)

\* C20: the API strategy of DataGovInConnector.run issues a request only for a
\* resource id that resolves (neither missing nor a PLACEHOLDER_ value), and
\* the strategy never raises out of run: when it does not apply it is skipped.
C20_ApiRequestGuard ==
    [][pc = "api" =>
          /\ pc' # "idle"
          /\ \A r \in requests' \ requests : r.kind = "api" => r.rid = "set"]_vars

\* ---- the last page (SpecFetch)

\* C25: in _fetch_api_pages a non-empty batch with fewer records than the
\* requested page size ends the loop: no further request follows it, whatever
\* the payload's total and count fields are.
C25_ShortBatchIsLast ==
    [][(f_pc = "loop" /\ visited' > visited /\ visited' - visited < limit)
          => f_pc' = "returned"]_vars

\* ---- no retry within a resolution (SpecResolve)

KindRank(kind) ==
    CASE kind = "api" -> 1
      [] kind = "page" -> 2
      [] kind = "file" -> 3

\* C21: within one resolution the latest request is never one already made
\* (the same API offset, the resource page again, the same candidate file),
\* and it never belongs to a strategy earlier in the ladder than a request
\* made before it.
C21_NoRetry ==
    \A i \in 1..(Len(log) - 1) :
        /\ KindRank(log[i].kind) <= KindRank(log[Len(log)].kind)
        /\ log[i].kind = log[Len(log)].kind => log[i].key # log[Len(log)].key

\* A resolution with two API requests, the resource page and two candidates.
C21_AllStrategiesRequested ==
    /\ Len(log) = 5
    /\ log[1].kind = "api" /\ log[2].kind = "api" /\ log[1].key # log[2].key
    /\ log[3].kind = "page"
    /\ log[4].kind = "file" /\ log[5].kind = "file"

\* ---- candidate files (SpecPage)

\* The places in the candidate list that were requested, in request order.
FileKeys == [i \in 1..Len(SelectSeq(log, LAMBDA r : r.kind = "file")) |->
                SelectSeq(log, LAMBDA r : r.kind = "file")[i].key]

RequestedKeys == {FileKeys[i] : i \in 1..Len(FileKeys)}

\* The candidate at place i is the first of the list with its path.
FirstOfPath(i) == \A j \in 1..(i - 1) : c_candidates[j].path # c_candidates[i].path

\* C26: when page discovery has gone through its candidates, they were
\* requested in list order, no URL path was requested twice, every candidate
\* up to the accepted one (all of them when none is accepted) that is the first
\* with its path was requested even after earlier ones failed, the accepted
\* candidate is the first requested one that gave a non-empty table and the
\* last one requested, and the status is then ok with an anchor naming it.
C26_FirstUsableCandidate ==
    c_pc = "done" =>
        LET last == IF c_accepted # 0 THEN c_accepted ELSE Len(c_candidates)
        IN /\ \A i, j \in 1..Len(FileKeys) : i < j => FileKeys[i] < FileKeys[j]
           /\ \A i, j \in RequestedKeys :
                 i # j => c_candidates[i].path # c_candidates[j].path
           /\ RequestedKeys = {i \in 1..last : FirstOfPath(i)}
           /\ \A i \in RequestedKeys : Usable(c_candidates[i].result) <=> i = c_accepted
           /\ c_accepted # 0 =>
                 /\ c_status = "ok"
                 /\ c_anchor = Anchor("resource_file", c_accepted)
                 /\ c_skip = NoVal
           /\ c_accepted = 0 => c_status # "ok" /\ c_anchor.kind # "resource_file"

\* The first candidate failed, the second shares its path and was passed over,
\* the third was accepted.
C26_AcceptedAfterFailure ==
    /\ c_pc = "done"
    /\ c_accepted = 3
    /\ c_failures = 1
    /\ RequestedKeys = {1, 3}
    /\ c_candidates[1].path = c_candidates[2].path

\* ---- terminal outcome of a resolution (SpecLadder)

\* The strategies the rows of a table came from.
Origins(df) == {df.rows[i].o : i \in 1..Len(df.rows)}

Yielded(strategy) == \E i \in 1..Len(ladder) : ladder[i] = Attempt(strategy, TRUE)

\* C29: when DataGovInConnector.run has returned, its manifest has one of the
\* five terminal statuses and never candidate_ready; automated goes with an
\* api anchor and a table of API rows, ok with a resource_file anchor and a
\* table of file rows, manual_ingest with the manual_upload anchor and the
\* manual table; failed is returned exactly when no strategy gave a frame and
\* carries a skip_reason; disabled is returned exactly for an auth-blocked
\* source; raw_files holds artifacts of the winning strategy only.
C29_TerminalOutcome ==
    (pc = "score" /\ source_id \in MappedSources) =>
        LET m == manifest_entry
            df == tables[source_id]
            blocked == source_auth \in {"restricted", "captcha"}
        IN /\ m.status \in {"automated", "ok", "manual_ingest", "failed", "disabled"}
           /\ m.status = "disabled" <=> blocked
           /\ m.status = "failed" <=>
                 (~blocked /\ ~Yielded("api") /\ ~Yielded("page")
                  /\ ~\E i \in 1..Len(ladder) : ladder[i].strategy = "manual")
           /\ m.status = "failed" => m.skip_reason # NoVal
           /\ m.status = "automated" <=> m.anchor = "api"
           /\ m.status = "automated" <=> (~blocked /\ Yielded("api"))
           /\ m.status = "automated" => Origins(df) = {"api"} /\ m.raw_files \subseteq {"api"}
           /\ m.status = "ok" <=> m.anchor = "resource_file"
           /\ m.status = "ok" <=> (~blocked /\ Yielded("page"))
           /\ m.status = "ok" => Origins(df) = {"page"} /\ m.raw_files \subseteq {"page"}
           /\ m.status = "manual_ingest" <=> m.anchor = "manual_upload"
           /\ m.status = "manual_ingest" =>
                 Origins(df) \subseteq {"manual"} /\ m.raw_files \subseteq {"manual"}

\* The API returned no row, a candidate file did, and a manual file was there.
C29_FileWinsOverManual ==
    /\ pc = "score"
    /\ source_id \in MappedSources
    /\ manifest_entry.status = "ok"
    /\ manual_df # NoneDf
    /\ \E i \in 1..Len(ladder) : ladder[i] = Attempt("api", FALSE)

\* ---- stale tables (Spec)

\* The latest resolution of the source ended blocked or failed.
EndedWithoutTable(entry) ==
    \/ entry.status = "failed"
    \/ entry.status = "disabled" /\ entry.skip_reason = "auth_restriction"

\* C30: when the resolution that just returned ended blocked or failed, the
\* entry run_ingestion records for it is scored on no table, and run_correlation
\* reads no table for that entry: the table an earlier successful run left at
\* the source's path is not used.
C30_NoStaleTable ==
    [][(pc = "score" /\ EndedWithoutTable(manifest_entry)) =>
          /\ manifests'[source_id].scores
                = Evaluate(EmptyDf, manifests'[source_id].status)
          /\ ~ReadsTable(manifests'[source_id])]_vars

\* ---- frame of an upsert (Spec)

Others(entries, sid) == SelectSeq(entries, LAMBDA e : e.source_id # sid)

\* The source whose entry the loop body of run_ingestion is about to upsert.
UpsertedSource == IF pc = "score" THEN source_id ELSE Head(targets)

LoopUpsert == pc' = "loop" /\ (pc = "score" \/ (pc = "loop" /\ targets' # targets))

\* C28: run_ingestion starts from the persisted catalog; each upsert of a
\* source s in its loop leaves the entries of every other source_id unchanged
\* and in their order and puts the one entry of s last; the list it persists is
\* the list so built, so entries of sources that were not selected are the
\* persisted ones; run_correlation's upsert of correlation_matrix does the same
\* to the persisted catalog.
C28_UpsertFrame ==
    [][/\ (pc = "idle" /\ pc' = "loop") => catalog_entries' = catalog
       /\ LoopUpsert =>
             /\ Others(catalog_entries', UpsertedSource)
                   = Others(catalog_entries, UpsertedSource)
             /\ catalog_entries'[Len(catalog_entries')].source_id = UpsertedSource
             /\ CountOf(catalog_entries', UpsertedSource) = 1
       /\ (pc = "loop" /\ pc' = "idle" /\ last_run' = "completed") =>
             catalog' = catalog_entries
       /\ (pc = "idle" /\ pc' = "idle" /\ catalog' # catalog) =>
             /\ Others(catalog', CorrelationId) = Others(catalog, CorrelationId)
             /\ catalog'[Len(catalog')].source_id = CorrelationId
             /\ CountOf(catalog', CorrelationId) = 1]_vars

\* A run that selected only the source listed first in the persisted catalog
\* has finished its loop: the other entry was carried over and now comes
\* first, the new entry of the selected source is last and differs from the
\* persisted one.
C28_CarriedOverAndReordered ==
    /\ pc = "loop"
    /\ targets = <<>>
    /\ Len(catalog) = 2
    /\ Len(catalog_entries) = 2
    /\ catalog_entries[1] = catalog[2]
    /\ catalog_entries[2].source_id = catalog[1].source_id
    /\ catalog_entries[2] # catalog[1]

\* ---- official first, and the auto-fetch gate (SpecOfficial)

\* The automated path of the connector that just returned gave, or would have
\* given, a non-empty table.
AutomatedWouldYield ==
    IF source_id \in MacroSources THEN Usable(endpoint)
    ELSE Yielded("api") \/ Yielded("page")

\* C24: when a connector with an automated path and a manual path has returned
\* for a source whose automated fetch is permitted and gives a non-empty table,
\* the table ingested is the automated one; the manual file is the result only
\* when the automated path gave nothing.
C24_OfficialFirst ==
    (pc = "score" /\ allow_auto_fetch /\ AutomatedWouldYield) =>
        /\ manifest_entry.status \in {"automated", "ok"}
        /\ "manual" \notin Origins(tables[source_id])

\* C22: when a connector has returned for a source whose allow_auto_fetch is
\* false, it issued no request at all and attempted no automated strategy; the
\* manifest says manual_ingest, failed or disabled, with a skip_reason unless a
\* manual file was imported; a table imported is the manual file's rows, and a
\* table written otherwise holds no fetched row.
C22_NoAutomatedAttempt ==
    (pc = "score" /\ ~allow_auto_fetch) =>
        /\ requests = {}
        /\ \A i \in 1..Len(ladder) : ladder[i].strategy = "manual"
        /\ manifest_entry.status \in {"manual_ingest", "failed", "disabled"}
        /\ manifest_entry.status # "manual_ingest" => manifest_entry.skip_reason # NoVal
        /\ manifest_entry.status = "manual_ingest" =>
              /\ manual_df # NoneDf
              /\ tables[source_id].rows = manual_df.rows
        /\ manifest_entry.has_manifest =>
              Origins(tables[source_id]) \subseteq {"manual", "stub"}

\* With auto-fetch off for both sources, the macro source was recorded as
\* disabled although its endpoint would have answered with rows, and the
\* data.gov.in source imported its manual file.
C22_BothConnectorsGated ==
    /\ pc = "score"
    /\ source_id \in MappedSources
    /\ ~allow_auto_fetch
    /\ manifest_entry.status = "manual_ingest"
    /\ manifests["m1"].status = "disabled"
    /\ Usable(endpoint)

\* ---- provenance columns (SpecStamp)

\* C23: the table DataGovInConnector.run writes for a resolved source has the
\* five provenance columns, every row has every column of the table, and the
\* retrieved_at of every row is the retrieved_at of the manifest.
C23_ProvenanceOnEveryRow ==
    t_pc = "returned" =>
        /\ ProvenanceCols \subseteq t_out.cols
        /\ Len(t_out.rows) = Len(t_df.rows)
        /\ \A i \in 1..Len(t_out.rows) :
              /\ DOMAIN t_out.rows[i] = t_out.cols
              /\ t_out.rows[i]["retrieved_at"] = t_at

\* The payload came with a retrieved_at column of its own, filled on one row
\* and empty on the other, and neither is the instant of the run.
C23_OwnTimestampOverwritten ==
    /\ t_pc = "returned"
    /\ "retrieved_at" \in t_df.cols
    /\ Len(t_df.rows) = 2
    /\ t_df.rows[1]["retrieved_at"] = "t1"
    /\ t_df.rows[2]["retrieved_at"] = NaCell
    /\ t_at = "t2"

\* ---- column names (SpecStandardize)

\* A name with every maximal run of spaces and newlines replaced by one "_".
RECURSIVE CollapseRuns(_)
CollapseRuns(s) ==
    IF s = <<>> THEN <<>>
    ELSE IF Head(s) \in {" ", "NL"}
    THEN IF Len(s) > 1 /\ s[2] \in {" ", "NL"}
         THEN CollapseRuns(Tail(s))
         ELSE <<"_">> \o CollapseRuns(Tail(s))
    ELSE <<Head(s)>> \o CollapseRuns(Tail(s))

\* The name the description gives: stripped, runs collapsed, lower-cased,
\* parentheses removed, "%" spelled pct.
DescribedName(col) ==
    ReplaceChar(ReplaceChar(ReplaceChar(Lower(CollapseRuns(Strip(col))),
        "(", <<>>), ")", <<>>), "%", <<"p", "c", "t">>)

\* C27: every column name _standardize_df returns is lower-case, without
\* parentheses, with "%" replaced by pct and with every run of one or more
\* spaces or newlines inside the name turned into exactly one underscore;
\* applying _standardize_df to its result changes no name; the number of rows
\* is the one passed in.
C27_StandardizedNames ==
    z_pc = "returned" =>
        /\ Len(z_out.columns) = Len(z_df.columns)
        /\ \A i \in 1..Len(z_out.columns) :
              /\ \A j \in 1..Len(z_out.columns[i]) :
                    z_out.columns[i][j] \notin {"A", "(", ")", "%", " ", "NL"}
              /\ z_out.columns[i] = DescribedName(z_df.columns[i])
        /\ StandardizeDf(z_out).columns = z_out.columns
        /\ z_out.rows = z_df.rows

====
